---- MODULE Spec2Model ----
(***************************************************************************)
(* A model of lifeomic/dynamost: the expression compiler                   *)
(* (src/src/dynamo-expressions.ts), the optimistic-locking upsert          *)
(* (DynamoTable.upsert in src/src/dynamo-table.ts) and the chunked batch   *)
(* write (src/src/batch-write.ts).                                         *)
(*                                                                         *)
(* Conventions.  A JavaScript object is an ordered map: a record of the    *)
(* table is a function from attribute names to values whose keys are       *)
(* enumerated in schema order (Keys), an operand map is a sequence of      *)
(* <<attribute, value>> pairs.  An expression string is modelled by the    *)
(* sequence of its tokens ("#name = :ref0" is <<"#name", "=", ":ref0">>),  *)
(* so that the store evaluates what the compiler wrote and nothing else.   *)
(***************************************************************************)
EXTENDS Integers, Sequences, FiniteSets, TLC

VARIABLES
  item,      \* the item stored under the key; NoRecord when there is none
  mod,       \* the modification function the caller handed to upsert
  pc,        \* position of the upsert call: get, modify, update, done, failed
  num,       \* number of the running attempt (async-retry counts from 1)
  existing,  \* the record the running attempt read (NoRecord for undefined)
  readNum,   \* the attempt in which `existing` was read (0: never)
  updating,  \* the UpdateCommand input in flight (NoRequest when none)
  errors,    \* the errors the retry operation collected, oldest first
  outcome,   \* how the promise returned by upsert settled
  writes,    \* number of updates of this call the store applied
  nOther,    \* number of writes of other clients so far
  upKeys,    \* config.keys of the table upsert is called on
  input,     \* batchWrite: input.request, the list of operations
  started,   \* batchWrite: whether the call has been made
  ch,        \* batchWrite: per chunk, the state of its retryBatchWrite chain
  pmap,      \* batchWrite: the state of the pMap call
  result,    \* batchWrite: how the promise returned by batchWrite settled
  txWrites,  \* TransactionManager.writes, the collector's list
  txStore,   \* the items the transactions write, by key
  txRun,     \* the latest TransactionManager.run call
  txLate,    \* writes suspended asynchronous callbacks have yet to register
  txRuns,    \* number of run calls made on the instance
  expIn,     \* the input of one call of the expression compiler
  expOut,    \* what the call returned
  tbItems,   \* the items of the table put, patch and delete write, by key
  tbCall,    \* the latest put, patch or delete call and its request
  tbResult,  \* how the promise the call returned settled
  pgTable,   \* the table that is scanned and queried: its keys, in store order
  pgCall,    \* the latest scan or query call and the request it made
  pgResponse,\* what the call returned, and what the store had returned to it
  pgPrev,    \* the LastEvaluatedKey of the page before the latest call
  pgCalls,   \* number of scan and query calls made
  da         \* the deleteAll call: its loop, its token, its batchDelete calls

upsertVars ==
  <<item, mod, pc, num, existing, readNum, updating, errors, outcome, writes, nOther>>

batchVars == <<input, started, ch, pmap, result>>

txVars == <<txWrites, txStore, txRun, txLate, txRuns>>

exprVars == <<expIn, expOut>>

tableVars == <<tbItems, tbCall, tbResult>>

configVars == <<upKeys>>

pageVars == <<pgTable, pgCall, pgResponse, pgPrev, pgCalls, da>>

vars == <<upsertVars, batchVars, txVars, exprVars, tableVars, pageVars, configVars>>

\* What an operation of one component leaves alone.
notUpsert == <<batchVars, txVars, exprVars, tableVars, pageVars, configVars>>

notBatch == <<upsertVars, txVars, exprVars, tableVars, pageVars, configVars>>

notTx == <<upsertVars, batchVars, exprVars, tableVars, pageVars, configVars>>

notExpr == <<upsertVars, batchVars, txVars, tableVars, pageVars, configVars>>

notTable == <<upsertVars, batchVars, txVars, exprVars, pageVars, configVars>>

notPage == <<upsertVars, batchVars, txVars, exprVars, tableVars, configVars>>

(***************************************************************************)
(* Bounds of the model.                                                    *)
(***************************************************************************)
MaxOtherWrites == 4

\* Longest input list of the chunking specification.
MaxOps == 76

\* The batch specification takes inputs of up to MaxChunks chunks.
MaxChunks == 3

\* Number of run calls on one TransactionManager.
MaxRuns == 3

\* Most children of an and/or composite, and most operators of a leaf map,
\* among the conditions handed to the compiler.
MaxArity == 2

\* Number of scan and query calls in a row, and the largest page size.
MaxPages == 5

MaxLimit == 2

\* Number of put, patch and delete calls in a row.
MaxCalls == 3

(***************************************************************************)
(* The table: hash key "id", no range key; two optional attributes.        *)
(***************************************************************************)
hash == "id"

AttrOrder == <<"id", "name", "tag">>

SchemaAttrs == {AttrOrder[i] : i \in 1..Len(AttrOrder)}

KeyValue == "123"

Values == {"First Item", "Updated Item"}

EmptyMap == [k \in {} |-> k]

NoRecord == EmptyMap

Key == (hash :> KeyValue)

Items ==
  UNION { { Key @@ f : f \in [S -> Values] } : S \in SUBSET (SchemaAttrs \ {hash}) }

\* The key schemas of the tables upsert is called on: KeySchema.range is
\* undefined (no field) or an attribute of the schema.
UserTableKeys == [hash |-> hash]

UpsertTables == {UserTableKeys, [hash |-> hash, range |-> "tag"]}

RangeValue == "First Item"

\* The `key` argument of upsert: TableKey<this>.
TableKey ==
  IF "range" \in DOMAIN upKeys THEN (upKeys.range :> RangeValue) @@ Key ELSE Key

\* The items the table can hold under that key.
TableItems ==
  {r \in Items : \A k \in DOMAIN TableKey : k \in DOMAIN r /\ r[k] = TableKey[k]}

\* Object.keys(record): the keys in insertion (schema) order.
Keys(record) == SelectSeq(AttrOrder, LAMBDA k : k \in DOMAIN record)

\* Object.entries(record).
Entries(record) ==
  [i \in 1..Len(Keys(record)) |-> <<Keys(record)[i], record[Keys(record)[i]]>>]

\* schema.parse: a zod object keeps the attributes of the schema and strips
\* the others.
Parse(record) == [k \in (DOMAIN record) \cap SchemaAttrs |-> record[k]]

(***************************************************************************)
(* dynamo-expressions.ts: the reference context.                           *)
(***************************************************************************)
undefined == [type |-> "undefined"]

IsUndefined(x) == "type" \in DOMAIN x /\ x.type = "undefined"

Str(tokens) == [type |-> "string", tokens |-> tokens]

\* JavaScript truthiness of a string-or-undefined value.
Truthy(e) == e.type = "string" /\ e.tokens # <<>>

createRefContext ==
  [ExpressionAttributeNames |-> EmptyMap,
   ExpressionAttributeValues |-> EmptyMap,
   objectRefCounter |-> 0]

\* Mutant: a new placeholder for every reference.
getSubjectRefFresh(ctx, subject) ==
  LET ref == "#n" \o ToString(Cardinality(DOMAIN ctx.ExpressionAttributeNames))
  IN [ref |-> ref,
      ctx |-> [ctx EXCEPT !.ExpressionAttributeNames = (ref :> subject) @@ @]]

getSubjectRef(ctx, subject) ==
  LET ref == "#" \o subject
  IN [ref |-> ref,
      ctx |-> [ctx EXCEPT !.ExpressionAttributeNames = (ref :> subject) @@ @]]

\* Mutant: a value already in the table gets the placeholder it has.
getObjectRefDedup(ctx, object) ==
  LET held == ctx.ExpressionAttributeValues
      same == {r \in DOMAIN held : held[r] = object}
      ref == IF same # {} THEN CHOOSE r \in same : TRUE
             ELSE ":ref" \o ToString(ctx.objectRefCounter)
  IN [ref |-> ref,
      ctx |-> [ctx EXCEPT !.ExpressionAttributeValues = (ref :> object) @@ @,
                          !.objectRefCounter = @ + 1]]

getObjectRef(ctx, object) ==
  LET ref == ":ref" \o ToString(ctx.objectRefCounter)
  IN [ref |-> ref,
      ctx |-> [ctx EXCEPT !.ExpressionAttributeValues = (ref :> object) @@ @,
                          !.objectRefCounter = @ + 1]]

(***************************************************************************)
(* dynamo-expressions.ts: Serializers.  One fragment per entry of the      *)
(* operand; the context is threaded through the entries in order.          *)
(***************************************************************************)
ComparatorOf(key) ==
  CASE key = "equals" -> "="
    [] key = "not-equals" -> "<>"
    [] key = "greater-than" -> ">"
    [] key = "greater-than-or-equal-to" -> ">="
    [] key = "less-than" -> "<"
    [] key = "less-than-or-equal-to" -> "<="

SerializeEntry(key, ctx, entry) ==
  IF key \in {"attribute-exists", "attribute-not-exists"} THEN
    LET s == getSubjectRef(ctx, entry)
        f == IF key = "attribute-exists" THEN "attribute_exists"
                                         ELSE "attribute_not_exists"
    IN [frag |-> <<f, "(", s.ref, ")">>, ctx |-> s.ctx]
  ELSE IF key = "between" THEN
    LET s == getSubjectRef(ctx, entry[1])
        from == getObjectRef(s.ctx, entry[2][1])
        to == getObjectRef(from.ctx, entry[2][2])
    IN [frag |-> <<"(", s.ref, "BETWEEN", from.ref, "AND", to.ref, ")">>,
        ctx |-> to.ctx]
  ELSE IF key = "begins-with" THEN
    LET s == getSubjectRef(ctx, entry[1])
        o == getObjectRef(s.ctx, entry[2])
    IN [frag |-> <<"begins_with", "(", s.ref, ",", o.ref, ")">>, ctx |-> o.ctx]
  ELSE
    LET s == getSubjectRef(ctx, entry[1])
        o == getObjectRef(s.ctx, entry[2])
    IN [frag |-> <<s.ref, ComparatorOf(key), o.ref>>, ctx |-> o.ctx]

RECURSIVE Serializers(_, _, _)
Serializers(key, ctx, condition) ==
  IF condition = <<>> THEN [out |-> <<>>, ctx |-> ctx]
  ELSE LET Cons(h, t) == [out |-> <<h.frag>> \o t.out, ctx |-> t.ctx]
           Rest(h) == Cons(h, Serializers(key, h.ctx, Tail(condition)))
       IN Rest(SerializeEntry(key, ctx, Head(condition)))

\* Array.prototype.join on fragments: the separator between the elements.
RECURSIVE Join(_, _)
Join(frags, sep) ==
  IF frags = <<>> THEN <<>>
  ELSE IF Len(frags) = 1 THEN frags[1]
  ELSE frags[1] \o sep \o Join(Tail(frags), sep)

(***************************************************************************)
(* dynamo-expressions.ts: _serializeCondition and joinConditionsUsing.     *)
(* A condition is [or |-> conditions], [and |-> conditions] or             *)
(* [leaf |-> entries], the entries being [key, value] in insertion order;   *)
(* a key whose value is undefined is an entry without the value field.     *)
(***************************************************************************)
RECURSIVE _serializeCondition(_, _)
RECURSIVE SerializeAll(_, _)
RECURSIVE SerializeLeaf(_, _)

\* conditions.map((cond) => _serializeCondition(cond, context))
SerializeAll(conditions, context) ==
  IF conditions = <<>> THEN [out |-> <<>>, ctx |-> context]
  ELSE LET Cons(h, t) == [out |-> <<h.expr>> \o t.out, ctx |-> t.ctx]
           Rest(h) == Cons(h, SerializeAll(Tail(conditions), h.ctx))
       IN Rest(_serializeCondition(Head(conditions), context))

\* Mutant: a single condition is wrapped in parentheses like the others.
joinConditionsUsingWrapOne(context, conditions, joiner) ==
  LET Joined(serialized, ctx) ==
        [expr |-> Str(Join([i \in 1..Len(serialized) |->
                              <<"(">> \o serialized[i].tokens \o <<")">>],
                           <<joiner>>)),
         ctx |-> ctx]
      Filtered(all) == Joined(SelectSeq(all.out, Truthy), all.ctx)
  IN Filtered(SerializeAll(conditions, context))

joinConditionsUsing(context, conditions, joiner) ==
  LET Joined(serialized, ctx) ==
        IF Len(serialized) = 1
          THEN [expr |-> serialized[1], ctx |-> ctx]
          ELSE [expr |-> Str(Join([i \in 1..Len(serialized) |->
                                     <<"(">> \o serialized[i].tokens \o <<")">>],
                                  <<joiner>>)),
                ctx |-> ctx]
      Filtered(all) == Joined(SelectSeq(all.out, Truthy), all.ctx)
  IN Filtered(SerializeAll(conditions, context))

\* The `for (const key in condition)` loop of _serializeCondition.
SerializeLeaf(entries, context) ==
  IF entries = <<>> THEN [out |-> <<>>, ctx |-> context]
  ELSE LET Cons(h, t) == [out |-> h.out \o t.out, ctx |-> t.ctx]
           Rest(h) == Cons(h, SerializeLeaf(Tail(entries), h.ctx))
           Entry(e) == IF "value" \notin DOMAIN e
                         THEN [out |-> <<>>, ctx |-> context]
                         ELSE Serializers(e.key, context, e.value)
       IN Rest(Entry(Head(entries)))

_serializeCondition(condition, context) ==
  IF "or" \in DOMAIN condition THEN
    joinConditionsUsing(context, condition.or, "OR")
  ELSE IF "and" \in DOMAIN condition THEN
    joinConditionsUsing(context, condition.and, "AND")
  ELSE
    LET Joined(c) ==
          IF c.out = <<>> THEN [expr |-> undefined, ctx |-> c.ctx]
          ELSE [expr |-> Str(Join(c.out, <<"AND">>)), ctx |-> c.ctx]
    IN Joined(SerializeLeaf(condition.leaf, context))

\* Mutant: the expression and the tables are returned whatever they hold.
serializeConditionAlways(condition) ==
  LET Result(c) ==
        [ConditionExpression |-> c.expr,
         ExpressionAttributeNames |-> c.ctx.ExpressionAttributeNames,
         ExpressionAttributeValues |-> c.ctx.ExpressionAttributeValues]
  IN Result(_serializeCondition(condition, createRefContext))

\* serializeCondition: {} when the expression is falsy (undefined or the
\* empty string); the value table is undefined when it has no entry.
serializeCondition(condition) ==
  LET Result(c) ==
        IF ~Truthy(c.expr) THEN EmptyMap
        ELSE [ConditionExpression |-> c.expr,
              ExpressionAttributeNames |-> c.ctx.ExpressionAttributeNames,
              ExpressionAttributeValues |->
                IF DOMAIN c.ctx.ExpressionAttributeValues # {}
                  THEN c.ctx.ExpressionAttributeValues
                  ELSE undefined]
  IN Result(_serializeCondition(condition, createRefContext))

\* serializeRangeKeyCondition: each operator of the range condition becomes
\* the operator applied to { [key]: value }.
RECURSIVE serializeRangeKeyCondition(_, _)
serializeRangeKeyCondition(key, rangeKeyCondition) ==
  IF "or" \in DOMAIN rangeKeyCondition THEN
    [or |-> [i \in 1..Len(rangeKeyCondition.or) |->
               serializeRangeKeyCondition(key, rangeKeyCondition.or[i])]]
  ELSE IF "and" \in DOMAIN rangeKeyCondition THEN
    [and |-> [i \in 1..Len(rangeKeyCondition.and) |->
                serializeRangeKeyCondition(key, rangeKeyCondition.and[i])]]
  ELSE
    [leaf |-> [i \in 1..Len(rangeKeyCondition.leaf) |->
                 [key |-> rangeKeyCondition.leaf[i].key,
                  value |-> << <<key, rangeKeyCondition.leaf[i].value>> >>]]]

\* serializeKeyCondition.  A key schema without a range key has no range
\* field; a key condition is a map from the key attributes to the hash value
\* and the range condition.
\* Mutant: the range condition is compiled before the hash equality.
serializeKeyConditionRangeFirst(schema, keyCondition) ==
  LET hashKeyCondition ==
        [leaf |-> <<[key |-> "equals",
                     value |-> << <<schema.hash, keyCondition[schema.hash]>> >>]>>]
      hasRange == "range" \in DOMAIN schema /\ schema.range \in DOMAIN keyCondition
      condition ==
        IF hasRange
          THEN [and |-> <<serializeRangeKeyCondition(schema.range,
                                                     keyCondition[schema.range]),
                          hashKeyCondition>>]
          ELSE hashKeyCondition
      Result(serialized) ==
        [KeyConditionExpression |-> serialized.ConditionExpression,
         ExpressionAttributeNames |-> serialized.ExpressionAttributeNames,
         ExpressionAttributeValues |-> serialized.ExpressionAttributeValues]
  IN Result(serializeCondition(condition))

serializeKeyCondition(schema, keyCondition) ==
  LET hashKeyCondition ==
        [leaf |-> <<[key |-> "equals",
                     value |-> << <<schema.hash, keyCondition[schema.hash]>> >>]>>]
      hasRange == "range" \in DOMAIN schema /\ schema.range \in DOMAIN keyCondition
      condition ==
        IF hasRange
          THEN [and |-> <<hashKeyCondition,
                          serializeRangeKeyCondition(schema.range,
                                                     keyCondition[schema.range])>>]
          ELSE hashKeyCondition
      Result(serialized) ==
        [KeyConditionExpression |-> serialized.ConditionExpression,
         ExpressionAttributeNames |-> serialized.ExpressionAttributeNames,
         ExpressionAttributeValues |-> serialized.ExpressionAttributeValues]
  IN Result(serializeCondition(condition))

(***************************************************************************)
(* dynamo-expressions.ts: _serializeUpdate and serializeUpdate.            *)
(***************************************************************************)
RECURSIVE UpdateOperations(_, _)
UpdateOperations(entries, context) ==
  IF entries = <<>> THEN [out |-> <<>>, ctx |-> context]
  ELSE LET Cons(s, o, t) ==
             [out |-> <<(<<s.ref, "=", o.ref>>)>> \o t.out, ctx |-> t.ctx]
           Rest(s, o) == Cons(s, o, UpdateOperations(Tail(entries), o.ctx))
           Value(s) == Rest(s, getObjectRef(s.ctx, Head(entries)[2]))
       IN Value(getSubjectRef(context, Head(entries)[1]))

_serializeUpdate(update, context) ==
  LET Result(operations) ==
        [expr |-> Str(<<"SET">> \o Join(operations.out, <<",">>)),
         ctx |-> operations.ctx]
  IN Result(UpdateOperations(update.set, context))

\* Mutant: the update clause is compiled with a context of its own.
serializeUpdateOwnContext(update, condition) ==
  LET Result(c, u) ==
        [UpdateExpression |-> u.expr,
         ConditionExpression |-> c.expr,
         ExpressionAttributeNames |->
           u.ctx.ExpressionAttributeNames @@ c.ctx.ExpressionAttributeNames,
         ExpressionAttributeValues |->
           u.ctx.ExpressionAttributeValues @@ c.ctx.ExpressionAttributeValues]
      Updating(c) == Result(c, _serializeUpdate(update, createRefContext))
  IN Updating(IF ~IsUndefined(condition)
                THEN _serializeCondition(condition, createRefContext)
                ELSE [expr |-> undefined, ctx |-> createRefContext])

serializeUpdate(update, condition) ==
  LET Result(c, u) ==
        [UpdateExpression |-> u.expr,
         ConditionExpression |-> c.expr,
         ExpressionAttributeNames |-> u.ctx.ExpressionAttributeNames,
         ExpressionAttributeValues |-> u.ctx.ExpressionAttributeValues]
      Updating(c) == Result(c, _serializeUpdate(update, c.ctx))
  IN Updating(IF ~IsUndefined(condition)
                THEN _serializeCondition(condition, createRefContext)
                ELSE [expr |-> undefined, ctx |-> createRefContext])

(***************************************************************************)
(* The store, as DynamoTable reaches it through client.get and             *)
(* client.update: UpdateItem evaluates the ConditionExpression against the *)
(* stored item (an absent item has no attribute), rejects the request with *)
(* ConditionalCheckFailedException when it is false, and otherwise creates *)
(* or updates the item with the SET assignments.  The expression is read   *)
(* with AND binding tighter than OR, references resolved through the       *)
(* request's name and value tables.                                        *)
(***************************************************************************)
NoError == [name |-> "none"]

ConditionalCheckFailedException(n) ==
  [name |-> "ConditionalCheckFailedException",
   message |-> "The conditional request failed",
   attempt |-> n]

\* The store's answer to an update whose SET names an attribute of the key.
KeyUpdateError ==
  [name |-> "ValidationException",
   message |-> "Cannot update attribute. This attribute is part of the key"]

AttrOf(req, ref) == req.ExpressionAttributeNames[ref]

ValOf(req, ref) == req.ExpressionAttributeValues[ref]

\* The characters the store compares strings by, in code point order.
Alphabet ==
  <<" ", "2", "F", "I", "U", "a", "d", "e", "i", "m", "p", "r", "s", "t">>

CodeOf(c) == CHOOSE i \in DOMAIN Alphabet : Alphabet[i] = c

CharsOf ==
  ("First Item" :> <<"F", "i", "r", "s", "t", " ", "I", "t", "e", "m">>)
    @@ ("First Item 2" :> <<"F", "i", "r", "s", "t", " ", "I", "t", "e", "m", " ", "2">>)
    @@ ("Updated Item" :> <<"U", "p", "d", "a", "t", "e", "d", " ", "I", "t", "e", "m">>)

\* begins_with on strings.
IsPrefix(x, y) ==
  /\ Len(CharsOf[x]) <= Len(CharsOf[y])
  /\ SubSeq(CharsOf[y], 1, Len(CharsOf[x])) = CharsOf[x]

\* The order of strings: by the first character that differs, a prefix
\* before the longer string.
Before(x, y) ==
  \/ x # y /\ IsPrefix(x, y)
  \/ \E i \in DOMAIN CharsOf[x] \cap DOMAIN CharsOf[y] :
       /\ SubSeq(CharsOf[x], 1, i - 1) = SubSeq(CharsOf[y], 1, i - 1)
       /\ CodeOf(CharsOf[x][i]) < CodeOf(CharsOf[y][i])

\* A comparison of an attribute of the stored item with a value: without
\* the attribute only <> holds.
Compares(cmp, stored, a, o) ==
  IF a \notin DOMAIN stored THEN cmp = "<>"
  ELSE CASE cmp = "=" -> stored[a] = o
         [] cmp = "<>" -> stored[a] # o
         [] cmp = "<" -> Before(stored[a], o)
         [] cmp = "<=" -> stored[a] = o \/ Before(stored[a], o)
         [] cmp = ">" -> Before(o, stored[a])
         [] cmp = ">=" -> stored[a] = o \/ Before(o, stored[a])
         [] cmp = "begins_with" -> IsPrefix(o, stored[a])

\* BETWEEN is inclusive.
IsBetween(stored, a, from, to) ==
  Compares(">=", stored, a, from) /\ Compares("<=", stored, a, to)

RECURSIVE EvalOr(_, _, _, _)
RECURSIVE EvalAnd(_, _, _, _)
RECURSIVE EvalAtom(_, _, _, _)

EvalAtom(t, p, req, stored) ==
  IF t[p] = "(" THEN
    LET Closed(r) == [v |-> r.v, p |-> r.p + 1]
    IN Closed(EvalOr(t, p + 1, req, stored))
  ELSE IF t[p] = "attribute_exists" THEN
    [v |-> AttrOf(req, t[p + 2]) \in DOMAIN stored, p |-> p + 4]
  ELSE IF t[p] = "attribute_not_exists" THEN
    [v |-> AttrOf(req, t[p + 2]) \notin DOMAIN stored, p |-> p + 4]
  ELSE IF t[p] = "begins_with" THEN
    [v |-> Compares("begins_with", stored, AttrOf(req, t[p + 2]), ValOf(req, t[p + 4])),
     p |-> p + 6]
  ELSE IF t[p + 1] = "BETWEEN" THEN
    [v |-> IsBetween(stored, AttrOf(req, t[p]), ValOf(req, t[p + 2]),
                     ValOf(req, t[p + 4])),
     p |-> p + 5]
  ELSE
    [v |-> Compares(t[p + 1], stored, AttrOf(req, t[p]), ValOf(req, t[p + 2])),
     p |-> p + 3]

EvalAnd(t, p, req, stored) ==
  LET Both(a, b) == [v |-> a.v /\ b.v, p |-> b.p]
      Rest(a) == IF a.p <= Len(t) /\ t[a.p] = "AND"
                   THEN Both(a, EvalAnd(t, a.p + 1, req, stored))
                   ELSE a
  IN Rest(EvalAtom(t, p, req, stored))

EvalOr(t, p, req, stored) ==
  LET Either(a, b) == [v |-> a.v \/ b.v, p |-> b.p]
      Rest(a) == IF a.p <= Len(t) /\ t[a.p] = "OR"
                   THEN Either(a, EvalOr(t, a.p + 1, req, stored))
                   ELSE a
  IN Rest(EvalAnd(t, p, req, stored))

ConditionHolds(req, stored) ==
  \/ IsUndefined(req.ConditionExpression)
  \/ EvalOr(req.ConditionExpression.tokens, 1, req, stored).v

\* The assignments of "SET #a = :x, #b = :y", from token p on.
RECURSIVE ApplySet(_, _, _, _)
ApplySet(stored, t, p, req) ==
  IF p > Len(t) THEN stored
  ELSE ApplySet((AttrOf(req, t[p]) :> ValOf(req, t[p + 2])) @@ stored, t, p + 4, req)

\* The attributes "SET #a = :x, #b = :y" assigns.
Assigned(req) ==
  {AttrOf(req, req.UpdateExpression.tokens[p]) :
     p \in {q \in DOMAIN req.UpdateExpression.tokens : q % 4 = 2}}

\* client.update with ReturnValues: 'ALL_NEW'.  The store validates the
\* request before it evaluates the condition.
UpdateItem(stored, req) ==
  IF Assigned(req) \cap DOMAIN req.Key # {}
    THEN [error |-> KeyUpdateError, item |-> stored, Attributes |-> NoRecord]
  ELSE IF ConditionHolds(req, stored)
    THEN LET Updated(new) == [error |-> NoError, item |-> new, Attributes |-> new]
         IN Updated(ApplySet(req.Key @@ stored, req.UpdateExpression.tokens, 2, req))
    ELSE [error |-> ConditionalCheckFailedException(0), item |-> stored,
          Attributes |-> NoRecord]

\* DynamoTable.get: undefined when the store returns no item.
get(stored) == IF stored = NoRecord THEN NoRecord ELSE Parse(stored)

(***************************************************************************)
(* The caller's modification function.  The result of a call is            *)
(* [kind |-> "return", value], [kind |-> "retry", reason] (the function    *)
(* called the retry escape) or [kind |-> "throw", error].                  *)
(*   rename           the README's first example                           *)
(*   renameWhenReady  the README's second example (retry escape)           *)
(*   ensure           creates the item, or copies its name into tag        *)
(*   replace          returns one fixed new state, whatever was read       *)
(***************************************************************************)
Modifications == {"rename", "renameWhenReady", "ensure", "replace"}

Return(value) == [kind |-> "return", value |-> value]

modification(m, ex) ==
  CASE m = "rename" ->
         IF ex = NoRecord
           THEN [kind |-> "throw",
                 error |-> [name |-> "Error", message |-> "Item does not exist"]]
           ELSE Return(("name" :> "Updated Item") @@ ex)
    [] m = "renameWhenReady" ->
         IF ex = NoRecord
           THEN [kind |-> "throw",
                 error |-> [name |-> "TypeError",
                            message |-> "Cannot read properties of undefined"]]
           ELSE IF ~("name" \in DOMAIN ex /\ ex["name"] = "First Item")
             THEN [kind |-> "retry",
                   reason |-> "Item does not have expected name yet"]
             ELSE Return(("name" :> "Updated Item") @@ ex)
    [] m = "ensure" ->
         IF ex = NoRecord
           THEN Return(("name" :> "First Item") @@ TableKey)
           ELSE Return(("tag" :> (IF "name" \in DOMAIN ex THEN ex["name"]
                                                           ELSE "First Item")) @@ ex)
    [] m = "replace" ->
         Return(("name" :> "Updated Item") @@ TableKey)

(***************************************************************************)
(* DynamoTable.upsert.                                                     *)
(***************************************************************************)
\* No batchWrite call is made.
BatchIdle ==
  /\ input = <<>>
  /\ started = FALSE
  /\ ch = <<>>
  /\ pmap = [isRejected |-> FALSE, isIterableDone |-> FALSE,
             resolvingCount |-> 0, currentIndex |-> 0]
  /\ result = [status |-> "pending"]

\* No TransactionManager.run call is made.
NoRun ==
  [pc |-> "idle", callback |-> "none", start |-> <<>>, registered |-> <<>>,
   calls |-> 0, sent |-> <<>>, committed |-> <<>>, error |-> NoError]

TxIdle ==
  /\ txWrites = <<>>
  /\ txStore = EmptyMap
  /\ txRun = NoRun
  /\ txLate = <<>>
  /\ txRuns = 0

\* The expression compiler is not called.
NotCalled == [kind |-> "none"]

ExprIdle ==
  /\ expIn = NotCalled
  /\ expOut = NotCalled

\* No put, patch or delete call is made.
TableIdle ==
  /\ tbItems = EmptyMap
  /\ tbCall = NotCalled
  /\ tbResult = NotCalled

\* No scan or query call is made.
PageIdle ==
  /\ pgTable = NotCalled
  /\ pgCall = NotCalled
  /\ pgResponse = NotCalled
  /\ pgPrev = NotCalled
  /\ pgCalls = 0
  /\ da = NotCalled

RetryableError(reason, n) ==
  [name |-> "RetryableError", message |-> reason, attempt |-> n]

\* Mutant: the lock leaves out the attributes the modification introduces.
upsertConditionEqualsOnly(ex, updated) ==
  IF ex # NoRecord
    THEN [leaf |-> <<[key |-> "equals", value |-> Entries(ex)]>>]
    ELSE [leaf |-> <<[key |-> "attribute-not-exists", value |-> <<hash>>]>>]

\* Mutant: the lock only asserts that the item still exists.
upsertConditionKeyOnly(ex, updated) ==
  IF ex # NoRecord
    THEN [leaf |-> <<[key |-> "attribute-exists", value |-> <<hash>>],
                     [key |-> "attribute-not-exists",
                      value |-> SelectSeq(Keys(updated),
                                          LAMBDA k : k \notin DOMAIN ex)]>>]
    ELSE [leaf |-> <<[key |-> "attribute-not-exists", value |-> <<hash>>]>>]

\* Mutant: no condition when no record was read.
upsertConditionNoCreateGuard(ex, updated) ==
  IF ex # NoRecord
    THEN [leaf |-> <<[key |-> "equals", value |-> Entries(ex)],
                     [key |-> "attribute-not-exists",
                      value |-> SelectSeq(Keys(updated),
                                          LAMBDA k : k \notin DOMAIN ex)]>>]
    ELSE [leaf |-> <<>>]

\* Mutant: the lock covers every attribute the record read did not have.
upsertConditionAllAbsent(ex, updated) ==
  IF ex # NoRecord
    THEN [leaf |-> <<[key |-> "equals", value |-> Entries(ex)],
                     [key |-> "attribute-not-exists",
                      value |-> SelectSeq(AttrOrder, LAMBDA k : k \notin DOMAIN ex)]>>]
    ELSE [leaf |-> <<[key |-> "attribute-not-exists", value |-> <<hash>>]>>]

\* The write-time condition of an attempt.
upsertCondition(ex, updated) ==
  IF ex # NoRecord
    THEN [leaf |-> <<[key |-> "equals", value |-> Entries(ex)],
                     [key |-> "attribute-not-exists",
                      value |-> SelectSeq(Keys(updated),
                                          LAMBDA k : k \notin DOMAIN ex)]>>]
    ELSE [leaf |-> <<[key |-> "attribute-not-exists", value |-> <<hash>>]>>]

\* `delete updated[this.config.keys.hash]`
deleteHash(record) == [k \in (DOMAIN record) \ {hash} |-> record[k]]

\* The input of client.update for the record the modification returned.
updateInput(ex, returned) ==
  LET updated == deleteHash(Parse(returned))
      s == serializeUpdate([set |-> Entries(updated)], upsertCondition(ex, updated))
  IN [UpdateExpression |-> s.UpdateExpression,
      ConditionExpression |-> s.ConditionExpression,
      ExpressionAttributeNames |-> s.ExpressionAttributeNames,
      ExpressionAttributeValues |-> s.ExpressionAttributeValues,
      Key |-> TableKey]

NoRequest == [type |-> "none"]

Pending == [status |-> "pending"]

\* Mutant: one retry more.
retriesOneMore == 3 + 1

\* async-retry's option { retries: 3 }: the retry operation holds 3 timeouts.
retries == 3

\* retry's RetryOperation.mainError, which async-retry rejects with once the
\* timeouts are used up: the error whose message occurred most often, the
\* latest one on a tie.
CountSoFar(errs, i) ==
  Cardinality({j \in 1..i : errs[j].message = errs[i].message})

RECURSIVE MainErrorFrom(_, _, _, _)
MainErrorFrom(errs, i, main, mainCount) ==
  IF i > Len(errs) THEN main
  ELSE IF CountSoFar(errs, i) >= mainCount
    THEN MainErrorFrom(errs, i + 1, errs[i], CountSoFar(errs, i))
    ELSE MainErrorFrom(errs, i + 1, main, mainCount)

mainError(errs) == MainErrorFrom(errs, 1, NoError, 0)

\* Mutant: a retry goes on with the record of the attempt before.
OnErrorNoReread(err) ==
  /\ errors' = Append(errors, err)
  /\ IF Len(errors) < retries
       THEN /\ pc' = "modify"
            /\ num' = num + 1
            /\ outcome' = outcome
       ELSE /\ pc' = "failed"
            /\ num' = num
            /\ outcome' = [status |-> "rejected", error |-> mainError(errors')]

\* The attempt threw a ConditionalCheckFailedException or a RetryableError:
\* async-retry's onError, op.retry(err).
OnError(err) ==
  /\ errors' = Append(errors, err)
  /\ IF Len(errors) < retries
       THEN /\ pc' = "get"
            /\ num' = num + 1
            /\ outcome' = outcome
       ELSE /\ pc' = "failed"
            /\ num' = num
            /\ outcome' = [status |-> "rejected", error |-> mainError(errors')]

\* Mutant: every error of an attempt is retried.
BailAsRetry(err) ==
  /\ pc' = (IF Len(errors) < retries THEN "get" ELSE "failed")
  /\ outcome' = (IF Len(errors) < retries THEN outcome
                 ELSE [status |-> "rejected", error |-> err])
  /\ UNCHANGED <<errors, num>>

\* Any other error: bail(err).
Bail(err) ==
  /\ pc' = "failed"
  /\ outcome' = [status |-> "rejected", error |-> err]
  /\ UNCHANGED <<errors, num>>

\* const existing = await this.get(key, { consistentRead: true })
Get ==
  /\ pc = "get"
  /\ existing' = get(item)
  /\ readNum' = num
  /\ pc' = "modify"
  /\ UNCHANGED <<item, mod, num, updating, errors, outcome, writes, nOther>>
  /\ UNCHANGED notUpsert

\* The synchronous stretch from the modification call to the update request.
Modify ==
  /\ pc = "modify"
  /\ LET r == modification(mod, existing)
     IN IF r.kind = "return"
          THEN /\ updating' = updateInput(existing, r.value)
               /\ pc' = "update"
               /\ UNCHANGED <<num, errors, outcome>>
          ELSE IF r.kind = "retry"
            THEN /\ OnError(RetryableError(r.reason, num))
                 /\ updating' = NoRequest
            ELSE /\ Bail([name |-> r.error.name, message |-> r.error.message,
                          attempt |-> num])
                 /\ updating' = NoRequest
  /\ UNCHANGED <<item, mod, existing, readNum, writes, nOther>>
  /\ UNCHANGED notUpsert

\* Mutant: the attempt is run again after a write that succeeded.
UpdateAndRetry ==
  /\ pc = "update"
  /\ LET res == UpdateItem(item, updating)
     IN IF res.error = NoError
          THEN /\ item' = res.item
               /\ writes' = writes + 1
               /\ outcome' = outcome
               /\ pc' = (IF num <= retries THEN "get" ELSE "done")
               /\ num' = (IF num <= retries THEN num + 1 ELSE num)
               /\ UNCHANGED errors
          ELSE IF res.error.name = "ConditionalCheckFailedException"
            THEN /\ OnError(ConditionalCheckFailedException(num))
                 /\ UNCHANGED <<item, writes>>
            ELSE /\ Bail([name |-> res.error.name, message |-> res.error.message,
                          attempt |-> num])
                 /\ UNCHANGED <<item, writes>>
  /\ updating' = NoRequest
  /\ UNCHANGED <<mod, existing, readNum, nOther>>
  /\ UNCHANGED notUpsert

\* The store processes the update request; upsert handles the response.
Update ==
  /\ pc = "update"
  /\ LET res == UpdateItem(item, updating)
     IN IF res.error = NoError
          THEN /\ item' = res.item
               /\ writes' = writes + 1
               /\ outcome' = [status |-> "resolved", value |-> Parse(res.Attributes)]
               /\ pc' = "done"
               /\ UNCHANGED <<num, errors>>
          ELSE IF res.error.name = "ConditionalCheckFailedException"
            THEN /\ OnError(ConditionalCheckFailedException(num))
                 /\ UNCHANGED <<item, writes>>
            ELSE /\ Bail([name |-> res.error.name, message |-> res.error.message,
                          attempt |-> num])
                 /\ UNCHANGED <<item, writes>>
  /\ updating' = NoRequest
  /\ UNCHANGED <<mod, existing, readNum, nOther>>
  /\ UNCHANGED notUpsert

\* Another client writes the item (puts, patches or deletes it) while the
\* upsert call is running.
OtherWrite ==
  /\ pc \in {"get", "modify", "update"}
  /\ nOther < MaxOtherWrites
  /\ \E r \in (TableItems \cup {NoRecord}) \ {item} : item' = r
  /\ nOther' = nOther + 1
  /\ UNCHANGED <<mod, pc, num, existing, readNum, updating, errors, outcome, writes>>
  /\ UNCHANGED notUpsert

InitUpsert ==
  /\ BatchIdle
  /\ TxIdle
  /\ ExprIdle
  /\ TableIdle
  /\ PageIdle
  /\ upKeys = UserTableKeys
  /\ item \in TableItems \cup {NoRecord}
  /\ mod \in Modifications
  /\ pc = "get"
  /\ num = 1
  /\ existing = NoRecord
  /\ readNum = 0
  /\ updating = NoRequest
  /\ errors = <<>>
  /\ outcome = Pending
  /\ writes = 0
  /\ nOther = 0

NextUpsert == Get \/ Modify \/ Update \/ OtherWrite

SpecUpsert == InitUpsert /\ [][NextUpsert]_vars

\* upsert on each of the tables, with and without a range key.
InitUpsertKeys ==
  /\ BatchIdle
  /\ TxIdle
  /\ ExprIdle
  /\ TableIdle
  /\ PageIdle
  /\ upKeys \in UpsertTables
  /\ item \in TableItems \cup {NoRecord}
  /\ mod \in Modifications
  /\ pc = "get"
  /\ num = 1
  /\ existing = NoRecord
  /\ readNum = 0
  /\ updating = NoRequest
  /\ errors = <<>>
  /\ outcome = Pending
  /\ writes = 0
  /\ nOther = 0

SpecUpsertKeys == InitUpsertKeys /\ [][NextUpsert]_vars

(***************************************************************************)
(* Properties of upsert.                                                   *)
(***************************************************************************)
\* The step is the store's processing of the attempt's update request.
UpdateStep == pc = "update" /\ pc' # "update"

\* The step is the attempt's call of the modification function.
ModifyStep == pc = "modify" /\ pc' # "modify"

\* Every attribute of the record read is on the stored item, unchanged.
Fresh == \A k \in DOMAIN existing : k \in DOMAIN item /\ item[k] = existing[k]

\* The record the modification function returned for the record read.
Proposed == modification(mod, existing).value

\* The step rejects the update with a conditional-check failure: the item is
\* left alone and the error goes to the retry operation.
RejectedStep ==
  /\ item' = item
  /\ writes' = writes
  /\ errors' = Append(errors, ConditionalCheckFailedException(num))

\* The step restarts the protocol at the read while a retry is left.
RestartStep ==
  Len(errors) < 3 => (pc' = "get" /\ num' = num + 1 /\ outcome' = Pending)

\* The call ended because the retries were used up.
Exhausted ==
  /\ pc = "failed"
  /\ outcome.status = "rejected"
  /\ outcome.error.name \in {"ConditionalCheckFailedException", "RetryableError"}

\* C1: existing-record case.  An update of upsert is applied only if, at the
\* moment of the write, every attribute of the record read still has the
\* value read and no attribute the modification introduces is on the stored
\* item; if that fails, the update is rejected with a conditional-check
\* failure and the item stays as it is.
C1_ExistingRecordCondition ==
  [][ (UpdateStep /\ existing # NoRecord) =>
        LET holds == /\ Fresh
                     /\ \A k \in (DOMAIN Proposed) \ (DOMAIN existing) :
                          k \notin DOMAIN item
        IN /\ (writes' # writes \/ item' # item) => holds
           /\ ~holds => RejectedStep
           /\ holds => (writes' = writes + 1 /\ pc' = "done") ]_vars

C1_Witness ==
  /\ pc = "done"
  /\ writes = 1
  /\ existing # NoRecord
  /\ (DOMAIN item) \ (DOMAIN existing) # {}

\* C2: if another writer changed an attribute the attempt read, the attempt's
\* update is rejected and upsert restarts at the read; an update that is
\* applied was computed from the values the store holds at that moment: the
\* stored and returned record carries every attribute of the modification's
\* result for those values, and keeps what other writers stored besides.
C2_ConcurrentWriter ==
  [][ UpdateStep =>
        /\ (existing # NoRecord /\ ~Fresh) => (RejectedStep /\ RestartStep)
        /\ pc' = "done" =>
             /\ Fresh
             /\ DOMAIN item' = (DOMAIN item) \cup (DOMAIN Proposed)
             /\ \A k \in DOMAIN Proposed : item'[k] = Proposed[k]
             /\ \A k \in (DOMAIN item) \ (DOMAIN Proposed) : item'[k] = item[k]
             /\ outcome' = [status |-> "resolved", value |-> item'] ]_vars

C2_Witness ==
  /\ pc = "done"
  /\ nOther >= 1
  /\ existing # NoRecord
  /\ errors # <<>>
  /\ errors[Len(errors)].name = "ConditionalCheckFailedException"
  /\ readNum = Len(errors) + 1

\* C3: no-record case.  When the modification function was called with an
\* absent record, the update is applied only if the item still does not
\* exist; an item another writer created in between is never overwritten:
\* the attempt is rejected and retried.
C3_NoRecordCondition ==
  [][ (UpdateStep /\ existing = NoRecord) =>
        /\ item # NoRecord => (RejectedStep /\ RestartStep)
        /\ (writes' # writes \/ item' # item) => item = NoRecord
        /\ item = NoRecord => (pc' = "done" /\ item' = Proposed) ]_vars

C3_Witness ==
  /\ pc = "get"
  /\ num >= 2
  /\ readNum = num - 1
  /\ existing = NoRecord
  /\ item # NoRecord
  /\ errors[num - 1].name = "ConditionalCheckFailedException"

\* C4 (as amended): one upsert call performs at most 4 attempts, the first
\* one and 3 retries; after the 4th failing attempt it stops and raises.
C4_AtMostFourAttempts ==
  /\ num \in 1..4
  /\ Len(errors) <= 4
  /\ Exhausted => (num = 4 /\ Len(errors) = 4)
  /\ Len(errors) = 4 => Exhausted

C4_Witness == Exhausted /\ num = 4 /\ Len(errors) = 4

\* C4 (as stated): at most 3 attempts; the call raises after the 3rd failure.
C4_AtMostThreeAttempts ==
  /\ num \in 1..3
  /\ Exhausted => Len(errors) = 3

\* C5: when the retries are used up, the error raised is the error of the
\* final attempt itself, and the call has applied no write.
C5_FinalErrorRaised ==
  Exhausted => (outcome.error = errors[Len(errors)] /\ writes = 0)

\* C6: an error the modification function throws otherwise than through the
\* retry escape is raised at once: the attempt issues no update, and nothing
\* happens after the call has failed, whatever retries are left.
C6_TerminalError ==
  [][ /\ (ModifyStep /\ modification(mod, existing).kind = "throw") =>
           /\ pc' = "failed"
           /\ outcome' = [status |-> "rejected",
                          error |-> [name |-> modification(mod, existing).error.name,
                                     message |-> modification(mod, existing).error.message,
                                     attempt |-> num]]
           /\ updating' = NoRequest
           /\ item' = item
           /\ writes' = writes
      /\ pc = "failed" => UNCHANGED vars ]_vars

C6_Witness ==
  /\ pc = "failed"
  /\ outcome.status = "rejected"
  /\ outcome.error.name = "Error"
  /\ num = 2
  /\ Len(errors) = 1

\* C7: when the modification function calls the retry escape, the attempt
\* issues no update and, while a retry is left, the protocol restarts at the
\* read: every modification call gets the record read in its own attempt,
\* and a RetryableError reaches the caller only with the retries used up.
C7_RetryEscape ==
  [][ /\ ModifyStep => readNum = num
      /\ (ModifyStep /\ modification(mod, existing).kind = "retry") =>
           /\ updating' = NoRequest
           /\ item' = item
           /\ writes' = writes
           /\ errors' = Append(errors, RetryableError(modification(mod, existing).reason, num))
           /\ RestartStep
      /\ (outcome'.status = "rejected" /\ outcome'.error.name = "RetryableError") =>
           Len(errors') = 4 ]_vars

C7_Witness ==
  /\ pc = "modify"
  /\ num >= 2
  /\ readNum = num
  /\ errors[num - 1].name = "RetryableError"
  /\ outcome = Pending

\* C8: right after a successful upsert, the record stored under the key
\* equals the record the modification function returned.
C8_StoredEqualsReturned ==
  pc = "done" => item = Proposed

\* The attributes of the stored item that the record read did not have.
AddedSince == (DOMAIN item) \ (DOMAIN existing)

\* C34: the lock does not cover brand-new attributes.  When the record read
\* is unchanged in the store and another writer has added attributes that
\* are neither in the record read nor in the record the modification
\* returned, the write succeeds and those attributes stay on the item.
C34_NewAttributeNotLocked ==
  [][ (/\ UpdateStep
       /\ existing # NoRecord
       /\ Fresh
       /\ AddedSince # {}
       /\ AddedSince \cap DOMAIN Proposed = {}) =>
        /\ pc' = "done"
        /\ outcome'.status = "resolved"
        /\ ~RejectedStep
        /\ \A k \in AddedSince : k \in DOMAIN item' /\ item'[k] = item[k]
        /\ \A k \in DOMAIN Proposed : item'[k] = Proposed[k] ]_vars

\* A rename read {id, name}; another writer added tag before the write; the
\* first attempt wrote the new name and the item keeps the tag.
C34_Witness ==
  /\ pc = "done"
  /\ mod = "rename"
  /\ num = 1
  /\ nOther = 1
  /\ DOMAIN existing = {"id", "name"}
  /\ DOMAIN item = {"id", "name", "tag"}
  /\ item["name"] = "Updated Item"

\* The step is one of another client.
OtherStep == nOther' # nOther

\* C36: one upsert call changes the stored item at most once, in the write
\* of its last attempt, which succeeded: an attempt that ends in a
\* conditional-check failure, a retry signalled by the caller or a terminal
\* error leaves the item as it was, and once the call has settled it reads
\* and writes nothing.
C36_OneWrite ==
  [][ /\ writes' <= 1
      /\ (~OtherStep /\ item' # item) =>
           /\ UpdateStep
           /\ pc' = "done"
           /\ writes = 0
           /\ writes' = 1
           /\ outcome'.status = "resolved"
      /\ (~OtherStep /\ pc' # "done") => (item' = item /\ writes' = writes)
      /\ pc \in {"done", "failed"} =>
           /\ pc' = pc
           /\ num' = num
           /\ readNum' = readNum
           /\ updating' = updating
           /\ writes' = writes
           /\ outcome' = outcome ]_vars

\* The third attempt wrote, after a conditional-check failure and a retry
\* signalled by the caller.
C36_Witness ==
  /\ pc = "done"
  /\ writes = 1
  /\ num = 3
  /\ Len(errors) = 2
  /\ {errors[1].name, errors[2].name}
       = {"ConditionalCheckFailedException", "RetryableError"}

(***************************************************************************)
(* batch-write.ts.  An operation of the input list is identified by its    *)
(* position; RequestItems and UnprocessedItems are maps from the table     *)
(* name to a list of operations.                                           *)
(***************************************************************************)
batchMaxItemCount == 25

\* Mutant: one mapper more.
concurrencyThree == 2 + 1

concurrency == 2

\* Mutant: one attempt more.
maxAttemptsSix == 5 + 1

maxAttempts == 5

table == "users"

InputOf(n) == [i \in 1..n |-> i]

\* Mutant: the remainder of the list is left out.
RECURSIVE chunkFull(_, _, _)
chunkFull(array, size, index) ==
  IF index + size > Len(array) THEN <<>>
  ELSE <<SubSeq(array, index + 1, index + size)>>
         \o chunkFull(array, size, index + size)

chunkFloor(array, size) == chunkFull(array, size, 0)

\* lodash's chunk: slices of `size` elements from index 0 on, the last one
\* holding what is left.
RECURSIVE chunkFrom(_, _, _)
chunkFrom(array, size, index) ==
  IF index >= Len(array) THEN <<>>
  ELSE <<SubSeq(array, index + 1,
                IF index + size < Len(array) THEN index + size ELSE Len(array))>>
         \o chunkFrom(array, size, index + size)

chunk(array, size) ==
  IF Len(array) = 0 \/ size < 1 THEN <<>> ELSE chunkFrom(array, size, 0)

\* The chunks of the call: chunk(input.request, batchMaxItemCount).
chunks == chunk(input, batchMaxItemCount)

ExhaustedError(attempt) ==
  [name |-> "Error",
   message |-> <<"Batch write returned some unprocessed items after",
                 attempt, "attempts">>]

NetworkFailure == [name |-> "NetworkError", message |-> <<"request failed">>]

\* No response of client.batchWrite has arrived yet.
NoResponse == [none |-> TRUE]

\* The elements of a list.
Range(list) == {list[j] : j \in DOMAIN list}

\* The operations of a request that the store did not report as unprocessed.
ProcessedBy(request, response) ==
  IF "UnprocessedItems" \in DOMAIN response
       /\ table \in DOMAIN response.UnprocessedItems
    THEN Range(request[table]) \ Range(response.UnprocessedItems[table])
    ELSE Range(request[table])

\* The mapper's call for one chunk, before pMap has started it: st is where
\* the chain of retryBatchWrite calls stands, request the RequestItems of its
\* latest call, response the latest response, processed the operations the
\* store has taken from it so far.
NewChain(requests) ==
  [st |-> "pending", attempt |-> 0, calls |-> 0,
   request |-> (table :> requests), response |-> NoResponse,
   processed |-> {}, error |-> NoError, timer |-> 0]

\* Mutant: the multiplier is not halved.
multiplierWhole(attempt) == <<2^attempt, 1>>

\* const multiplier = 2 ** attempt / 2: the fraction <<numerator,
\* denominator>> (0.5 for attempt 0; a power of two, exact in a double).
multiplier(attempt) == <<2^attempt, 2>>

\* delay(100 * multiplier): the milliseconds handed to setTimeout.  The
\* product is a whole number for every attempt.
delay(attempt) == (100 * multiplier(attempt)[1]) \div multiplier(attempt)[2]

\* Mutant: a retry sends the request of the call before once more.
retryBatchWriteResend(c, request, attempt) ==
  IF attempt >= 5
    THEN [c EXCEPT !.st = "failed", !.attempt = attempt,
                   !.error = [name |-> "Error",
                              message |-> <<"Batch write returned some unprocessed items after",
                                            attempt, "attempts">>]]
    ELSE [c EXCEPT !.st = "calling", !.attempt = attempt, !.calls = @ + 1]

\* retryBatchWrite up to its first await: the attempt check and the call of
\* client.batchWrite.  c is the state of the chunk's chain.
retryBatchWrite(c, request, attempt) ==
  IF attempt >= maxAttempts
    THEN [c EXCEPT !.st = "failed", !.attempt = attempt,
                   !.error = ExhaustedError(attempt)]
    ELSE [c EXCEPT !.st = "calling", !.attempt = attempt, !.request = request,
                   !.calls = @ + 1]

\* Mutant: the returned promise resolves once the last chunk was started.
nextEarlyResolve(S) ==
  IF S.p.isRejected THEN S
  ELSE LET index == S.p.currentIndex
           p1 == [S.p EXCEPT !.currentIndex = index + 1]
       IN IF index >= Len(S.c)
            THEN [S EXCEPT !.p = [p1 EXCEPT !.isIterableDone = TRUE],
                           !.r = [status |-> "resolved"]]
            ELSE [S EXCEPT !.p = [p1 EXCEPT !.resolvingCount = @ + 1],
                           !.c[index + 1] =
                              retryBatchWrite(S.c[index + 1],
                                              S.c[index + 1].request, 0)]

\* Mutant: next() goes on after a rejection.
nextAfterReject(S) ==
  LET index == S.p.currentIndex
      p1 == [S.p EXCEPT !.currentIndex = index + 1]
  IN IF index >= Len(S.c)
       THEN [S EXCEPT !.p = [p1 EXCEPT !.isIterableDone = TRUE],
                      !.r = IF S.p.resolvingCount = 0 /\ S.r.status = "pending"
                              THEN [status |-> "resolved"]
                              ELSE S.r]
       ELSE [S EXCEPT !.p = [p1 EXCEPT !.resolvingCount = @ + 1],
                      !.c[index + 1] =
                         retryBatchWrite(S.c[index + 1],
                                         S.c[index + 1].request, 0)]

\* pMap's next(): S holds the pMap state p, the chunk states c and the state
\* r of the returned promise.
next(S) ==
  IF S.p.isRejected THEN S
  ELSE LET index == S.p.currentIndex
           p1 == [S.p EXCEPT !.currentIndex = index + 1]
       IN IF index >= Len(S.c)
            THEN [S EXCEPT !.p = [p1 EXCEPT !.isIterableDone = TRUE],
                           !.r = IF S.p.resolvingCount = 0
                                   THEN [status |-> "resolved"]
                                   ELSE S.r]
            ELSE [S EXCEPT !.p = [p1 EXCEPT !.resolvingCount = @ + 1],
                           !.c[index + 1] =
                              retryBatchWrite(S.c[index + 1],
                                              S.c[index + 1].request, 0)]

\* pMap's starting loop: `concurrency` calls of next(), fewer when the
\* iterable runs out.
RECURSIVE StartLoop(_, _)
StartLoop(S, i) ==
  IF i >= concurrency THEN S
  ELSE LET S1 == next(S)
       IN IF S1.p.isIterableDone THEN S1 ELSE StartLoop(S1, i + 1)

\* Mutant: a resolved mapper does not start the next one.
ResolvedNoNext(S, i) ==
  [S EXCEPT !.c[i].st = "done",
            !.p.resolvingCount = @ - 1]

\* The mapper's promise of chunk i resolved: resolvingCount--, next().
Resolved(S, i) ==
  next([S EXCEPT !.c[i].st = "done",
                 !.p.resolvingCount = @ - 1])

\* Mutant: the error of a chunk is wrapped before it is handed on.
RejectedWrapped(S, i, error) ==
  [S EXCEPT !.c[i].st = "failed",
            !.c[i].error = [name |-> "Error", message |-> <<"Batch write failed">>,
                            cause |-> error],
            !.p.isRejected = TRUE,
            !.r = IF S.r.status = "pending"
                    THEN [status |-> "rejected",
                          error |-> [name |-> "Error",
                                     message |-> <<"Batch write failed">>,
                                     cause |-> error]]
                    ELSE S.r]

\* The mapper's promise of chunk i rejected: isRejected = true, reject(error);
\* a promise that is settled stays as it is.
Rejected(S, i, error) ==
  [S EXCEPT !.c[i].st = "failed",
            !.c[i].error = error,
            !.p.isRejected = TRUE,
            !.r = IF S.r.status = "pending"
                    THEN [status |-> "rejected", error |-> error]
                    ELSE S.r]

Current == [p |-> pmap, c |-> ch, r |-> result]

Becomes(S) ==
  /\ pmap' = S.p
  /\ ch' = S.c
  /\ result' = S.r

UpsertIdle ==
  /\ upKeys = UserTableKeys
  /\ item = NoRecord
  /\ mod = "rename"
  /\ pc = "idle"
  /\ num = 1
  /\ existing = NoRecord
  /\ readNum = 0
  /\ updating = NoRequest
  /\ errors = <<>>
  /\ outcome = Pending
  /\ writes = 0
  /\ nOther = 0

\* batchWrite(input): the chunks, and pMap up to its first await.
BatchWrite ==
  /\ ~started
  /\ started' = TRUE
  /\ Becomes(StartLoop([p |-> pmap,
                        c |-> [i \in 1..Len(chunks) |->
                                 NewChain(chunks[i])],
                        r |-> result], 0))
  /\ UNCHANGED input
  /\ UNCHANGED notBatch

\* What the store may answer to a request: everything processed (the
\* UnprocessedItems absent, or an empty map), or the first operation
\* processed and the others not (a lone operation not processed).
Responses(req) ==
  {[ok |-> TRUE],
   [UnprocessedItems |-> EmptyMap],
   [UnprocessedItems |->
      (table :> (IF Len(req[table]) >= 2 THEN Tail(req[table]) ELSE req[table]))]}

\* retryBatchWrite of chunk i from the response to its return or its delay.
Responded(i, response) ==
  IF \/ "UnprocessedItems" \notin DOMAIN response
     \/ Cardinality(DOMAIN response.UnprocessedItems) = 0
    THEN Becomes(Resolved([Current EXCEPT
                             !.c[i].response = response,
                             !.c[i].processed =
                                @ \cup ProcessedBy(ch[i].request, response)], i))
    ELSE Becomes([Current EXCEPT
                    !.c[i].st = "delay",
                    !.c[i].timer = delay(ch[i].attempt),
                    !.c[i].response = response,
                    !.c[i].processed =
                       @ \cup ProcessedBy(ch[i].request, response)])

\* The response of client.batchWrite for chunk i arrives.
Respond(i) ==
  /\ started
  /\ i \in DOMAIN ch
  /\ ch[i].st = "calling"
  /\ \E response \in Responses(ch[i].request) : Responded(i, response)
  /\ UNCHANGED <<input, started>>
  /\ UNCHANGED notBatch

\* The response for chunk i names the table with nothing left in its list.
RespondEmptyList(i) ==
  /\ started
  /\ i \in DOMAIN ch
  /\ ch[i].st = "calling"
  /\ Responded(i, [UnprocessedItems |-> (table :> <<>>)])
  /\ UNCHANGED <<input, started>>
  /\ UNCHANGED notBatch

\* client.batchWrite of chunk i fails.
NetworkError(i) ==
  /\ started
  /\ i \in DOMAIN ch
  /\ ch[i].st = "calling"
  /\ Becomes(Rejected(Current, i, NetworkFailure))
  /\ UNCHANGED <<input, started>>
  /\ UNCHANGED notBatch

\* The timer of chunk i fires, the backoff is over: retryBatchWrite with
\* attempt + 1.
DelayElapsed(i) ==
  /\ started
  /\ i \in DOMAIN ch
  /\ ch[i].st = "delay"
  /\ LET c == retryBatchWrite([ch[i] EXCEPT !.timer = 0],
                              ch[i].response.UnprocessedItems,
                              ch[i].attempt + 1)
     IN IF c.st = "failed"
          THEN Becomes(Rejected([Current EXCEPT !.c[i] = c], i, c.error))
          ELSE Becomes([Current EXCEPT !.c[i] = c])
  /\ UNCHANGED <<input, started>>
  /\ UNCHANGED notBatch

BatchSizes ==
  {n \in {c * batchMaxItemCount + r : c \in 0..MaxChunks, r \in {0, 1}} :
     n <= MaxChunks * batchMaxItemCount}

InitBatch ==
  /\ UpsertIdle
  /\ TxIdle
  /\ ExprIdle
  /\ TableIdle
  /\ PageIdle
  /\ input \in {InputOf(n) : n \in BatchSizes}
  /\ started = FALSE
  /\ ch = <<>>
  /\ pmap = [isRejected |-> FALSE, isIterableDone |-> FALSE,
             resolvingCount |-> 0, currentIndex |-> 0]
  /\ result = [status |-> "pending"]

NextBatch ==
  \/ BatchWrite
  \/ \E i \in 1..MaxChunks : Respond(i)
  \/ \E i \in 1..MaxChunks : NetworkError(i)
  \/ \E i \in 1..MaxChunks : DelayElapsed(i)

SpecBatch == InitBatch /\ [][NextBatch]_vars

\* batchWrite on a store whose responses may name the table with an empty
\* list of unprocessed operations.
ListSizes == {1, 2, 26}

InitBatchLists ==
  /\ UpsertIdle
  /\ TxIdle
  /\ ExprIdle
  /\ TableIdle
  /\ PageIdle
  /\ input \in {InputOf(n) : n \in ListSizes}
  /\ started = FALSE
  /\ ch = <<>>
  /\ pmap = [isRejected |-> FALSE, isIterableDone |-> FALSE,
             resolvingCount |-> 0, currentIndex |-> 0]
  /\ result = [status |-> "pending"]

NextBatchLists ==
  \/ BatchWrite
  \/ \E i \in 1..MaxChunks : Respond(i)
  \/ \E i \in 1..MaxChunks : RespondEmptyList(i)
  \/ \E i \in 1..MaxChunks : NetworkError(i)
  \/ \E i \in 1..MaxChunks : DelayElapsed(i)

SpecBatchLists == InitBatchLists /\ [][NextBatchLists]_vars

\* batchWrite with every network call settling and every timer firing in
\* the end.
LiveSizes == {0, 1, 26, 51}

InitBatchLive ==
  /\ UpsertIdle
  /\ TxIdle
  /\ ExprIdle
  /\ TableIdle
  /\ PageIdle
  /\ input \in {InputOf(n) : n \in LiveSizes}
  /\ started = FALSE
  /\ ch = <<>>
  /\ pmap = [isRejected |-> FALSE, isIterableDone |-> FALSE,
             resolvingCount |-> 0, currentIndex |-> 0]
  /\ result = [status |-> "pending"]

SpecBatchLive == InitBatchLive /\ [][NextBatch]_vars /\ WF_vars(NextBatch)

\* The chunking alone, for every length of the input up to MaxOps.
Chunked ==
  /\ ~started
  /\ started' = TRUE
  /\ ch' = [i \in 1..Len(chunks) |-> NewChain(chunks[i])]
  /\ UNCHANGED <<input, pmap, result>>
  /\ UNCHANGED notBatch

InitChunk ==
  /\ UpsertIdle
  /\ TxIdle
  /\ ExprIdle
  /\ TableIdle
  /\ PageIdle
  /\ input \in {InputOf(n) : n \in 0..MaxOps}
  /\ started = FALSE
  /\ ch = <<>>
  /\ pmap = [isRejected |-> FALSE, isIterableDone |-> FALSE,
             resolvingCount |-> 0, currentIndex |-> 0]
  /\ result = [status |-> "pending"]

SpecChunk == InitChunk /\ [][Chunked]_vars

(***************************************************************************)
(* Properties of batchWrite.                                               *)
(***************************************************************************)
\* The operations of the chunks, as the mappers receive them.
ChunkLists == [i \in DOMAIN ch |-> ch[i].request[table]]

RECURSIVE Flatten(_)
Flatten(lists) ==
  IF lists = <<>> THEN <<>> ELSE Head(lists) \o Flatten(Tail(lists))

\* The chunks whose chain is running: from the first network call to the end
\* of the last retry, the backoff waits included.
InFlight == {i \in DOMAIN ch : ch[i].st \in {"calling", "delay"}}

\* The chunks with a network call outstanding.
Outstanding == {i \in DOMAIN ch : ch[i].st = "calling"}

\* C9: an input list of n operations is split into ceil(n/25) chunks of at
\* most 25 operations, all but the last of exactly 25; every operation is in
\* exactly one chunk and the chunks in order make up the input list; 75
\* operations give 3 chunks of 25.
C9_Chunks ==
  started =>
    LET n == Len(input)
        cs == ChunkLists
    IN /\ Len(cs) = (n + 24) \div 25
       /\ \A i \in DOMAIN cs : Len(cs[i]) \in 1..25
       /\ \A i \in DOMAIN cs : i < Len(cs) => Len(cs[i]) = 25
       /\ Flatten(cs) = input
       /\ \A op \in 1..n :
            Cardinality({<<i, j>> \in (DOMAIN cs) \X (1..25) :
                           j <= Len(cs[i]) /\ cs[i][j] = op}) = 1
       /\ n = 75 => (Len(cs) = 3 /\ \A i \in 1..3 : Len(cs[i]) = 25)

C9_Witness ==
  /\ started
  /\ Len(input) = 75
  /\ Len(ch) = 3
  /\ ch[3].request[table] = [j \in 1..25 |-> 50 + j]

\* C10: at most 2 chunks are in flight at any instant, so at most 2 network
\* calls are outstanding; a chunk after the second is dispatched only in the
\* step in which an earlier chunk completes.
C10_TwoInFlight ==
  [][ /\ Cardinality(InFlight') <= 2
      /\ Cardinality(Outstanding') <= 2
      /\ \A i \in DOMAIN ch' :
           (/\ i > 2
            /\ i \in DOMAIN ch
            /\ ch[i].st = "pending"
            /\ ch'[i].st # "pending")
             => \E j \in 1..(i - 1) : j \in InFlight /\ ch'[j].st = "done" ]_vars

C10_Witness ==
  /\ Len(ch) >= 3
  /\ ch[1].st = "done"
  /\ ch[2].st = "delay"
  /\ ch[3].st = "calling"

\* The response reports nothing unprocessed: no UnprocessedItems, or an
\* empty map.
NoneUnprocessed(response) ==
  \/ "UnprocessedItems" \notin DOMAIN response
  \/ DOMAIN response.UnprocessedItems = {}

\* C11: a retry call of a chunk sends exactly the unprocessed operations the
\* response before it reported, no operation the store processed and none
\* left out; the chunk completes with the first response that reports
\* nothing unprocessed, and no call is made for it afterwards.
C11_RetryUnprocessed ==
  [][ \A i \in DOMAIN ch :
        /\ (ch[i].st = "delay" /\ ch'[i].st = "calling") =>
             /\ ch'[i].request = ch[i].response.UnprocessedItems
             /\ ch'[i].calls = ch[i].calls + 1
             /\ Range(ch'[i].request[table]) \cap ch[i].processed = {}
             /\ Range(ch'[i].request[table]) \cup ch[i].processed
                  = Range(chunks[i])
        /\ (ch[i].st = "calling" /\ ch'[i].st \in {"done", "delay"}) =>
             /\ ch'[i].calls = ch[i].calls
             /\ ch'[i].st = "done" <=> NoneUnprocessed(ch'[i].response)
        /\ ch[i].st = "done" => ch'[i] = ch[i] ]_vars

C11_Witness ==
  \E i \in DOMAIN ch :
    /\ ch[i].st = "done"
    /\ ch[i].calls = 2
    /\ ch[i].request[table] = Tail(chunks[i])
    /\ Len(chunks[i]) = 25
    /\ ch[i].processed = Range(chunks[i])

\* C12: a chunk whose responses all report unprocessed operations gets
\* exactly 5 network calls, never a 6th; its chain then fails with the error
\* "Batch write returned some unprocessed items after 5 attempts", and
\* batchWrite is rejected, with that error unless a chunk failed before.
C12_FiveAttempts ==
  [][ \A i \in DOMAIN ch' :
        /\ ch'[i].calls <= 5
        /\ ch'[i].st = "delay" => ch'[i].calls = ch'[i].attempt + 1
        /\ (i \in DOMAIN ch /\ ch[i].st = "delay" /\ ch'[i] # ch[i]) =>
             IF ch[i].attempt < 4
               THEN ch'[i].st = "calling"
               ELSE /\ ch[i].calls = 5
                    /\ ch'[i].calls = 5
                    /\ ch'[i].st = "failed"
                    /\ ch'[i].error =
                         [name |-> "Error",
                          message |-> <<"Batch write returned some unprocessed items after",
                                        5, "attempts">>]
                    /\ result'.status = "rejected"
                    /\ result.status = "pending" => result'.error = ch'[i].error
        /\ (i \in DOMAIN ch /\ ch[i].st = "failed") => ch'[i] = ch[i] ]_vars

C12_Witness ==
  /\ result.status = "rejected"
  /\ result.error = ExhaustedError(5)
  /\ \E i \in DOMAIN ch :
       /\ ch[i].st = "failed"
       /\ ch[i].calls = 5
       /\ ch[i].attempt = 5
       /\ ch[i].processed # Range(chunks[i])

\* C13: when batchWrite has resolved, every chunk of the input has completed
\* and every operation of the input list was sent in a call whose response
\* did not report it as unprocessed.
C13_ResolvedMeansProcessed ==
  result.status = "resolved" =>
    /\ started
    /\ Len(ch) = Len(chunks)
    /\ \A i \in DOMAIN ch :
         /\ ch[i].st = "done"
         /\ ch[i].calls >= 1
         /\ NoneUnprocessed(ch[i].response)
    /\ \A op \in Range(input) : \E i \in DOMAIN ch : op \in ch[i].processed

C13_Witness ==
  /\ result.status = "resolved"
  /\ Len(input) = 51
  /\ ch[1].calls = 3
  /\ ch[3].calls = 2

\* C31: the delay that follows the call with attempt k is 100 * 2^k / 2 ms
\* (50, 100, 200, 400 after the first four calls), and a retry call of a
\* chunk is made only in the step in which the timer of that delay fires.
C31_Backoff ==
  [][ \A i \in DOMAIN ch' :
        /\ ch'[i].st = "delay" =>
             /\ ch'[i].timer = <<50, 100, 200, 400, 800>>[ch'[i].attempt + 1]
             /\ ch'[i].timer * 2 = 100 * 2^(ch'[i].attempt)
        /\ (i \in DOMAIN ch /\ ch[i].calls >= 1 /\ ch'[i].calls # ch[i].calls) =>
             /\ ch[i].st = "delay"
             /\ ch[i].timer = <<50, 100, 200, 400, 800>>[ch'[i].attempt]
             /\ ch'[i].attempt = ch[i].attempt + 1
             /\ ch'[i].timer = 0 ]_vars

\* A chunk waits 400 ms after its fourth call.
C31_Witness ==
  \E i \in DOMAIN ch :
    /\ ch[i].st = "delay"
    /\ ch[i].calls = 4
    /\ ch[i].attempt = 3
    /\ ch[i].timer = 400

\* The response reports no unprocessed operation: no UnprocessedItems, an
\* empty map, or tables with empty lists.
NoItemsUnprocessed(response) ==
  \/ "UnprocessedItems" \notin DOMAIN response
  \/ \A t \in DOMAIN response.UnprocessedItems :
       Len(response.UnprocessedItems[t]) = 0

\* C32: a retry request is never empty, and a response that reports no
\* unprocessed operation completes the chunk.
C32_RetryOnlyUnprocessed ==
  [][ \A i \in DOMAIN ch :
        /\ (ch[i].st = "delay" /\ ch'[i].st = "calling") =>
             Len(ch'[i].request[table]) >= 1
        /\ (ch[i].st = "calling" /\ ch'[i].response # ch[i].response
              /\ NoItemsUnprocessed(ch'[i].response)) =>
             ch'[i].st = "done" ]_vars

\* A retry call was made with an empty list of operations.
C32_EmptyRetry ==
  \E i \in DOMAIN ch :
    /\ ch[i].st = "calling"
    /\ ch[i].calls = 2
    /\ ch[i].request = (table :> <<>>)

\* C33: when a network call of a chunk raises an error, the chunk fails
\* with that error as it is, without another call then or later, and
\* batchWrite is rejected, with that error unless a chunk failed before.
C33_NetworkErrorNotRetried ==
  [][ \A i \in DOMAIN ch :
        /\ (ch[i].st = "calling" /\ ch'[i].st = "failed") =>
             /\ ch'[i].error = NetworkFailure
             /\ ch'[i].calls = ch[i].calls
             /\ ch'[i].attempt = ch[i].attempt
             /\ result'.status = "rejected"
             /\ result.status = "pending" => result'.error = NetworkFailure
             /\ result.status # "pending" => result' = result
        /\ (ch[i].st = "failed" /\ ch[i].error = NetworkFailure) =>
             ch'[i] = ch[i] ]_vars

\* The second call of a chunk raised an error and batchWrite is rejected
\* with it.
C33_Witness ==
  /\ result.status = "rejected"
  /\ result.error = NetworkFailure
  /\ \E i \in DOMAIN ch :
       /\ ch[i].st = "failed"
       /\ ch[i].error = NetworkFailure
       /\ ch[i].calls = 2
       /\ ch[i].attempt = 1

\* The chunks whose chain has failed.
Failed == {i \in DOMAIN ch : ch[i].st = "failed"}

\* C37: when a chunk fails, batchWrite is rejected with the error of the
\* first chunk that failed, and a chunk that was not dispatched by then is
\* never dispatched.
C37_NoDispatchAfterFailure ==
  [][ /\ Failed # {} =>
           /\ result.status = "rejected"
           /\ result' = result
           /\ \A j \in DOMAIN ch : ch[j].st = "pending" => ch'[j] = ch[j]
      /\ \A i \in DOMAIN ch :
           (Failed = {} /\ ch'[i].st = "failed") =>
             /\ result' = [status |-> "rejected", error |-> ch'[i].error]
             /\ \A j \in DOMAIN ch : ch[j].st = "pending" => ch'[j] = ch[j] ]_vars

\* The first chunk failed with the third not dispatched; the second has
\* completed since and the third is still not dispatched.
C37_Witness ==
  /\ Len(ch) = 3
  /\ ch[1].st = "failed"
  /\ ch[2].st = "done"
  /\ ch[3].st = "pending"
  /\ ch[3].calls = 0
  /\ result.status = "rejected"
  /\ result.error = ch[1].error

\* The network calls made so far, over all chunks.
RECURSIVE CallsOf(_, _)
CallsOf(chains, i) ==
  IF i > Len(chains) THEN 0 ELSE chains[i].calls + CallsOf(chains, i + 1)

\* C38: every batchWrite call settles, after at most 5 network calls per
\* chunk and 5 * ceil(n/25) in all; for an empty list it resolves without a
\* network call.
C38_Terminates ==
  /\ <>(result.status # "pending")
  /\ [](\A i \in DOMAIN ch : ch[i].calls <= 5)
  /\ [](CallsOf(ch, 1) <= 5 * ((Len(input) + 24) \div 25))
  /\ []((started /\ Len(input) = 0) =>
          (result.status = "resolved" /\ ch = <<>>))

\* Two chunks: one used up its five calls, batchWrite is rejected, and the
\* chain of the other has come to its end as well.
C38_Witness ==
  /\ Len(input) = 26
  /\ result.status = "rejected"
  /\ ch[1].calls = 5
  /\ ch[1].st = "failed"
  /\ ch[2].st = "done"

(***************************************************************************)
(* The write requests of DynamoTable: getPut, getPatch, getDelete and the  *)
(* *Transact methods, which hand them to the transaction.                  *)
(***************************************************************************)
tableName == "dynamost-user-table"

\* record.field of a JavaScript object: undefined when the field is absent.
Field(record, f) == IF f \in DOMAIN record THEN record[f] ELSE undefined

NoOptions == EmptyMap

\* Mutant: a put never asks that the item does not exist.
getPutOverwrite(record, options) ==
  [TableName |-> tableName, Item |-> Parse(record)]
    @@ serializeCondition(
         [and |-> IF "condition" \in DOMAIN options
                    THEN <<options.condition>> ELSE <<>>])

\* getPut(record, options)
getPut(record, options) ==
  LET conditions ==
        (IF ~("overwrite" \in DOMAIN options /\ options.overwrite)
           THEN <<[leaf |-> <<[key |-> "attribute-not-exists",
                               value |-> <<hash>>]>>]>>
           ELSE <<>>)
        \o (IF "condition" \in DOMAIN options THEN <<options.condition>> ELSE <<>>)
  IN [TableName |-> tableName, Item |-> Parse(record)]
       @@ serializeCondition([and |-> conditions])

\* Mutant: a patch without the condition that the item exists.
getPatchNoExists(key, patch, options) ==
  LET Patch(s) ==
        [TableName |-> tableName, Key |-> key, ReturnValues |-> "ALL_NEW",
         UpdateExpression |-> s.UpdateExpression,
         ConditionExpression |-> s.ConditionExpression,
         ExpressionAttributeNames |-> s.ExpressionAttributeNames,
         ExpressionAttributeValues |-> s.ExpressionAttributeValues]
  IN Patch(serializeUpdate(patch,
             IF "condition" \in DOMAIN options
               THEN options.condition ELSE undefined))

\* Mutant: with a caller condition the patch carries that condition alone.
getPatchConditionOnly(key, patch, options) ==
  LET Patch(s) ==
        [TableName |-> tableName, Key |-> key, ReturnValues |-> "ALL_NEW",
         UpdateExpression |-> s.UpdateExpression,
         ConditionExpression |-> s.ConditionExpression,
         ExpressionAttributeNames |-> s.ExpressionAttributeNames,
         ExpressionAttributeValues |-> s.ExpressionAttributeValues]
  IN Patch(serializeUpdate(patch,
             IF "condition" \in DOMAIN options
               THEN options.condition
               ELSE [leaf |-> <<[key |-> "attribute-exists",
                                 value |-> <<hash>>]>>]))

\* getPatch(key, patch, options)
getPatch(key, patch, options) ==
  LET Patch(s) ==
        [TableName |-> tableName, Key |-> key, ReturnValues |-> "ALL_NEW",
         UpdateExpression |-> s.UpdateExpression,
         ConditionExpression |-> s.ConditionExpression,
         ExpressionAttributeNames |-> s.ExpressionAttributeNames,
         ExpressionAttributeValues |-> s.ExpressionAttributeValues]
  IN Patch(serializeUpdate(patch,
             [and |-> <<[leaf |-> <<[key |-> "attribute-exists",
                                     value |-> <<hash>>]>>],
                        IF "condition" \in DOMAIN options
                          THEN options.condition ELSE [leaf |-> <<>>]>>]))

\* getDelete(key, options)
getDelete(key, options) ==
  [TableName |-> tableName, Key |-> key]
    @@ (IF "condition" \in DOMAIN options
          THEN serializeCondition(options.condition) ELSE EmptyMap)

\* The item conditionTransact adds.
getConditionCheck(key, options) ==
  LET Check(serializedCondition) ==
        [ConditionExpression |-> Field(serializedCondition, "ConditionExpression"),
         ExpressionAttributeNames |->
           Field(serializedCondition, "ExpressionAttributeNames"),
         ExpressionAttributeValues |->
           Field(serializedCondition, "ExpressionAttributeValues"),
         Key |-> key,
         TableName |-> tableName]
  IN Check(serializeCondition(options.condition))

(***************************************************************************)
(* What a callback does with the transaction: a list of calls of           *)
(* putTransact, patchTransact, deleteTransact and conditionTransact on the *)
(* items "user-1" and "user-2".                                            *)
(***************************************************************************)
TxKeys == {"user-1", "user-2"}

TxKey(id) == (hash :> id)

TxItem(id, name) == (hash :> id) @@ ("name" :> name)

putTransact(id, name) == [op |-> "put", id |-> id, name |-> name]

patchTransact(id, name) == [op |-> "patch", id |-> id, name |-> name]

deleteTransact(id) == [op |-> "delete", id |-> id]

conditionTransact(id, name) == [op |-> "condition", id |-> id, name |-> name]

TxCalls ==
  {putTransact(id, "First Item") : id \in TxKeys}
    \cup {patchTransact(id, "Updated Item") : id \in TxKeys}
    \cup {deleteTransact(id) : id \in TxKeys}
    \cup {conditionTransact(id, "First Item") : id \in TxKeys}

\* The item a call hands to transaction.addWrite.
WriteItem(call) ==
  CASE call.op = "put" ->
         [Put |-> getPut(TxItem(call.id, call.name), NoOptions)]
    [] call.op = "patch" ->
         [Update |-> getPatch(TxKey(call.id),
                              [set |-> << <<"name", call.name>> >>], NoOptions)]
    [] call.op = "delete" ->
         [Delete |-> getDelete(TxKey(call.id), NoOptions)]
    [] call.op = "condition" ->
         [ConditionCheck |->
            getConditionCheck(TxKey(call.id),
              [condition |-> [leaf |-> <<[key |-> "equals",
                                          value |-> << <<"name", call.name>> >>]>>]])]

WriteItems(calls) == [i \in 1..Len(calls) |-> WriteItem(calls[i])]

\* The callbacks handed to run.  A callback makes its `sync` calls before it
\* returns; an asynchronous one returns a promise at its first await and
\* makes its `late` calls when it is resumed; `throws` tells whether it
\* throws after its sync calls.
Callbacks ==
  {"putAndPatch", "deleteAndPatch", "deleteIfName", "noWrites",
   "throwsAfterPut", "asyncPutThenPatch", "asyncPatchOnly"}

SyncCalls(cb) ==
  CASE cb = "putAndPatch" ->
         <<putTransact("user-2", "First Item"), patchTransact("user-1", "Updated Item")>>
    [] cb = "deleteAndPatch" ->
         <<deleteTransact("user-1"), patchTransact("user-2", "Updated Item")>>
    [] cb = "deleteIfName" ->
         <<deleteTransact("user-1"), conditionTransact("user-2", "First Item")>>
    [] cb = "noWrites" -> <<>>
    [] cb = "throwsAfterPut" -> <<putTransact("user-2", "First Item")>>
    [] cb = "asyncPutThenPatch" -> <<putTransact("user-2", "First Item")>>
    [] cb = "asyncPatchOnly" -> <<>>

LateCalls(cb) ==
  CASE cb = "asyncPutThenPatch" -> <<patchTransact("user-1", "Updated Item")>>
    [] cb = "asyncPatchOnly" -> <<patchTransact("user-1", "Updated Item")>>
    [] OTHER -> <<>>

Throws(cb) == cb = "throwsAfterPut"

CallbackError == [name |-> "Error", message |-> "callback failed"]

(***************************************************************************)
(* The store's TransactWriteItems: every condition is evaluated on the     *)
(* items as they are before the transaction; if one fails the request is   *)
(* cancelled and nothing is written, otherwise every action is applied.    *)
(* DynamoDB rejects a request with two actions on one item; the local      *)
(* store of the tests does not, so both are allowed.                       *)
(***************************************************************************)
Request(writeItem) ==
  CASE "Put" \in DOMAIN writeItem -> writeItem.Put
    [] "Update" \in DOMAIN writeItem -> writeItem.Update
    [] "Delete" \in DOMAIN writeItem -> writeItem.Delete
    [] "ConditionCheck" \in DOMAIN writeItem -> writeItem.ConditionCheck

Target(writeItem) ==
  IF "Put" \in DOMAIN writeItem THEN writeItem.Put.Item[hash]
  ELSE Request(writeItem).Key[hash]

ItemConditionHolds(writeItem, stored) ==
  \/ "ConditionExpression" \notin DOMAIN Request(writeItem)
  \/ ConditionHolds(Request(writeItem), stored)

ApplyItem(writeItem, stored) ==
  CASE "Put" \in DOMAIN writeItem -> writeItem.Put.Item
    [] "Update" \in DOMAIN writeItem ->
         ApplySet(writeItem.Update.Key @@ stored,
                  writeItem.Update.UpdateExpression.tokens, 2, writeItem.Update)
    [] "Delete" \in DOMAIN writeItem -> NoRecord
    [] "ConditionCheck" \in DOMAIN writeItem -> stored

RECURSIVE ApplyAll(_, _)
ApplyAll(store, items) ==
  IF items = <<>> THEN store
  ELSE ApplyAll([store EXCEPT ![Target(Head(items))] =
                   ApplyItem(Head(items), store[Target(Head(items))])],
                Tail(items))

DistinctTargets(items) ==
  \A i, j \in DOMAIN items : i # j => Target(items[i]) # Target(items[j])

TransactionCanceledException(reasons) ==
  [name |-> "TransactionCanceledException",
   message |-> "Transaction cancelled, please refer cancellation reasons for specific reasons",
   reasons |-> reasons]

ValidationException ==
  [name |-> "ValidationException",
   message |-> "Transaction request cannot include multiple operations on one item"]

TransactWrite(store, items, strict) ==
  IF strict /\ ~DistinctTargets(items)
    THEN [error |-> ValidationException, store |-> store]
  ELSE IF \E i \in DOMAIN items : ~ItemConditionHolds(items[i], store[Target(items[i])])
    THEN [error |-> TransactionCanceledException(
                      [i \in DOMAIN items |->
                         IF ItemConditionHolds(items[i], store[Target(items[i])])
                           THEN "None" ELSE "ConditionalCheckFailed"]),
          store |-> store]
  ELSE [error |-> NoError, store |-> ApplyAll(store, items)]

(***************************************************************************)
(* transaction-manager.ts: TransactionManager.                             *)
(***************************************************************************)
\* transaction.addWrite(item): this.writes.push(item)
addWrite(ws, writeItem) == Append(ws, writeItem)

RECURSIVE addWrites(_, _)
addWrites(ws, writeItems) ==
  IF writeItems = <<>> THEN ws
  ELSE addWrites(addWrite(ws, Head(writeItems)), Tail(writeItems))

\* flushWrites(): this.writes = []
flushWrites == <<>>

\* Mutant: a commit is made whatever the list holds.
HasWritesAlways(ws) == TRUE

\* this.writes.length > 0
HasWrites(ws) == Len(ws) > 0

\* Mutant: one call per write; the list that goes out is the first write.
TransactItemsFirst(ws) == <<ws[1]>>

\* The TransactItems of the call: { TransactItems: this.writes }.
TransactItems(ws) == ws

\* Mutant: the list is cleared only after a commit that succeeded.
FinallyOnSuccess(ws, error) == IF error = NoError THEN <<>> ELSE ws

\* try { await transactWrite } finally { this.flushWrites() }: the list once
\* the commit attempt is over.
Finally(ws, error) == flushWrites

EmptyTransactionError ==
  [name |-> "Error", message |-> "No writes were added to the transaction"]

\* run(transactionRun) up to its first await or its throw: the callback runs
\* to its return (an asynchronous one to its first await), then the list is
\* looked at.
Run(cb) ==
  /\ txRun.pc \in {"idle", "resolved", "rejected"}
  /\ txRuns < MaxRuns
  /\ txRuns' = txRuns + 1
  /\ LET CallbackReturned(ws, r) ==
           /\ txWrites' = ws
           /\ IF Throws(cb)
                THEN /\ txRun' = [r EXCEPT !.pc = "rejected", !.error = CallbackError]
                     /\ txLate' = txLate
                ELSE /\ txLate' = txLate \o LateCalls(cb)
                     /\ IF HasWrites(ws)
                          THEN txRun' = [r EXCEPT !.pc = "commit", !.calls = 1,
                                                  !.sent = TransactItems(ws)]
                          ELSE txRun' = [r EXCEPT !.pc = "rejected",
                                                  !.error = EmptyTransactionError]
         Registered(registered) ==
           CallbackReturned(addWrites(txWrites, registered),
                            [NoRun EXCEPT !.callback = cb, !.start = txWrites,
                                          !.registered = registered])
     IN Registered(WriteItems(SyncCalls(cb)))
  /\ UNCHANGED txStore
  /\ UNCHANGED notTx

\* client.transactWrite settles and run goes on to its end.  The call was
\* handed the array this.writes itself: what the request holds of the writes
\* pushed since the call is not fixed by the code, so the store gets the
\* list as it was at the call or as it is now.
Commit ==
  /\ txRun.pc = "commit"
  /\ \E items \in {txRun.sent, TransactItems(txWrites)}, strict \in BOOLEAN :
       LET Settled(r) ==
             /\ txStore' = r.store
             /\ txWrites' = Finally(txWrites, r.error)
             /\ txRun' = [txRun EXCEPT
                            !.pc = IF r.error = NoError THEN "resolved" ELSE "rejected",
                            !.committed = IF r.error = NoError THEN items ELSE <<>>,
                            !.error = r.error]
       IN Settled(TransactWrite(txStore, items, strict))
  /\ UNCHANGED <<txLate, txRuns>>
  /\ UNCHANGED notTx

\* A suspended asynchronous callback is resumed and makes its next call.
Resume ==
  /\ txLate # <<>>
  /\ txWrites' = addWrite(txWrites, WriteItem(Head(txLate)))
  /\ txLate' = Tail(txLate)
  /\ UNCHANGED <<txStore, txRun, txRuns>>
  /\ UNCHANGED notTx

TxStores ==
  [TxKeys -> {NoRecord}] \cup
  {[k \in TxKeys |-> IF k \in S THEN TxItem(k, n[k]) ELSE NoRecord] :
     S \in (SUBSET TxKeys) \ {{}}, n \in [TxKeys -> Values]}

InitTx ==
  /\ UpsertIdle
  /\ BatchIdle
  /\ ExprIdle
  /\ TableIdle
  /\ PageIdle
  /\ txWrites = <<>>
  /\ txStore \in TxStores
  /\ txRun = NoRun
  /\ txLate = <<>>
  /\ txRuns = 0

NextTx ==
  \/ \E cb \in Callbacks : Run(cb)
  \/ Commit
  \/ Resume

SpecTx == InitTx /\ [][NextTx]_vars

(***************************************************************************)
(* Properties of TransactionManager.run.                                   *)
(***************************************************************************)
\* The step is a call of run, up to its first await or its throw.
RunStep == txRuns' = txRuns + 1

\* The step is the end of the commit attempt.
CommitStep == txRun.pc = "commit" /\ txRun'.pc # "commit"

\* What the calls of a callback mean for the items: when the action's
\* condition holds, and what the action does.
CallOf(writeItem) == CHOOSE call \in TxCalls : WriteItem(call) = writeItem

CallHolds(call, store) ==
  CASE call.op = "put" -> store[call.id] = NoRecord
    [] call.op = "patch" -> store[call.id] # NoRecord
    [] call.op = "delete" -> TRUE
    [] call.op = "condition" ->
         /\ "name" \in DOMAIN store[call.id]
         /\ store[call.id]["name"] = call.name

CallEffect(call, stored) ==
  CASE call.op = "put" -> TxItem(call.id, call.name)
    [] call.op = "patch" -> ("name" :> call.name) @@ TxKey(call.id) @@ stored
    [] call.op = "delete" -> NoRecord
    [] call.op = "condition" -> stored

RECURSIVE EffectAll(_, _)
EffectAll(store, calls) ==
  IF calls = <<>> THEN store
  ELSE EffectAll([store EXCEPT ![Head(calls).id] =
                    CallEffect(Head(calls), store[Head(calls).id])],
                 Tail(calls))

\* C14: a run whose callback returned with at least one write registered
\* makes exactly one transactWrite call; its TransactItems are the list as
\* the callback left it, the writes in registration order: the callback's
\* writes alone on a list that was empty when the run began.
C14_OneCommitFullList ==
  [][ /\ RunStep =>
           /\ txRun'.calls <= 1
           /\ (txRun'.registered # <<>> /\ ~Throws(txRun'.callback)) =>
                /\ txRun'.pc = "commit"
                /\ txRun'.calls = 1
                /\ txRun'.sent = txRun'.start \o txRun'.registered
                /\ txRun'.start = <<>> =>
                     txRun'.sent = WriteItems(SyncCalls(txRun'.callback))
      /\ ~RunStep => txRun'.calls = txRun.calls /\ txRun'.sent = txRun.sent
      /\ (CommitStep /\ txRun'.pc = "resolved" /\ txWrites = txRun.sent) =>
           txRun'.committed = txRun.sent ]_vars

C14_Witness ==
  /\ txRun.pc = "resolved"
  /\ txRun.callback = "putAndPatch"
  /\ txRun.calls = 1
  /\ txRun.start = <<>>
  /\ Len(txRun.committed) = 2
  /\ "Put" \in DOMAIN txRun.committed[1]
  /\ "Update" \in DOMAIN txRun.committed[2]

\* C15: a run that finds no write registered when its callback has returned
\* is rejected with "No writes were added to the transaction" and makes no
\* transactWrite call; the items stay as they are.
C15_EmptyTransaction ==
  [][ (RunStep /\ txWrites' = <<>> /\ ~Throws(txRun'.callback)) =>
        /\ txRun'.pc = "rejected"
        /\ txRun'.error =
             [name |-> "Error", message |-> "No writes were added to the transaction"]
        /\ txRun'.calls = 0
        /\ txRun'.sent = <<>>
        /\ txStore' = txStore ]_vars

C15_Witness ==
  /\ txRun.pc = "rejected"
  /\ txRun.callback = "noWrites"
  /\ txRun.error = EmptyTransactionError
  /\ txRun.calls = 0
  /\ txRuns = 2

\* C16: at the end of the commit attempt the collector's list is empty,
\* after a commit that succeeded and after one that failed alike, and a
\* failure is the store's error, raised to the caller.
C16_ListCleared ==
  [][ CommitStep =>
        /\ txWrites' = <<>>
        /\ txRun'.pc \in {"resolved", "rejected"}
        /\ txRun'.pc = "rejected" =>
             /\ txStore' = txStore
             /\ txRun'.error.name \in {"TransactionCanceledException",
                                       "ValidationException"}
        /\ txRun'.pc = "resolved" => txRun'.error = NoError ]_vars

C16_Witness ==
  /\ txRun.pc = "rejected"
  /\ txRun.calls = 1
  /\ txRun.error.name = "TransactionCanceledException"
  /\ txWrites = <<>>
  /\ txLate = <<>>

\* C17: all or nothing.  When the condition of every action of the commit
\* holds (a put: the item does not exist; a patch: it exists; a condition
\* check: its comparison), the run resolves and every action is applied;
\* when one fails, the run is rejected and the items stay as they were.  A
\* request with two actions on one item may be rejected as a whole.
C17_AllOrNothing ==
  [][ CommitStep =>
        \E items \in {txRun.sent, txWrites} :
          LET calls == [i \in DOMAIN items |-> CallOf(items[i])]
          IN IF \A i \in DOMAIN calls : CallHolds(calls[i], txStore)
               THEN \/ /\ txRun'.pc = "resolved"
                       /\ txRun'.committed = items
                       /\ txStore' = EffectAll(txStore, calls)
                    \/ /\ \E i, j \in DOMAIN calls : i # j /\ calls[i].id = calls[j].id
                       /\ txRun'.pc = "rejected"
                       /\ txStore' = txStore
               ELSE /\ txRun'.pc = "rejected"
                    /\ txStore' = txStore ]_vars

C17_Witness ==
  /\ txRun.pc = "rejected"
  /\ txRun.callback = "deleteAndPatch"
  /\ txRun.start = <<>>
  /\ txRun.error = TransactionCanceledException(<<"None", "ConditionalCheckFailed">>)
  /\ txStore["user-1"] # NoRecord
  /\ txStore["user-2"] = NoRecord

\* C18: the commit of a run holds every write its callback registers, those
\* an asynchronous callback registers after a suspension included: such a
\* run is not rejected as empty, and when it resolves its commit held them
\* all.
C18_CommitAfterCallback ==
  LET all == WriteItems(SyncCalls(txRun.callback) \o LateCalls(txRun.callback))
  IN /\ (txRun.pc = "rejected" /\ txRun.error = EmptyTransactionError) => all = <<>>
     /\ txRun.pc = "resolved" => Range(all) \subseteq Range(txRun.committed)

(***************************************************************************)
(* Calls of the expression compiler.  The conditions are leaf maps of up   *)
(* to MaxArity operators and and/or composites, two levels deep, of up to  *)
(* MaxArity children; operand lists and maps may be empty, an operator's   *)
(* value may be undefined.                                                 *)
(***************************************************************************)
SeqsUpTo(S, n) == UNION {[1..k -> S] : k \in 0..n}

Operand(key, value) == [key |-> key, value |-> value]

\* Operators with an operand.
Operands ==
  {Operand("attribute-exists", <<"name">>),
   Operand("attribute-exists", <<"name", "tag">>),
   Operand("attribute-not-exists", <<"tag">>),
   Operand("equals", << <<"name", "First Item">> >>),
   Operand("equals", << <<"name", "First Item">>, <<"tag", "First Item">> >>),
   Operand("not-equals", << <<"name", "Updated Item">> >>),
   Operand("between", << <<"tag", <<"First Item", "Updated Item">> >> >>),
   Operand("begins-with", << <<"name", "First Item">> >>),
   Operand("greater-than", << <<"tag", "First Item">> >>)}

\* Operators without one: an empty list, an empty map, undefined.
EmptyOperands ==
  {Operand("attribute-exists", <<>>),
   Operand("equals", <<>>),
   [key |-> "not-equals"]}

LeafMaps ==
  {[leaf |-> es] : es \in {s \in SeqsUpTo(Operands \cup EmptyOperands, MaxArity) :
                             \A i, j \in DOMAIN s : i # j => s[i].key # s[j].key}}

\* The leaf maps the composites are built from.
ChildLeaves ==
  {[leaf |-> <<>>],
   [leaf |-> <<Operand("attribute-exists", <<>>)>>],
   [leaf |-> <<Operand("attribute-exists", <<"name">>)>>],
   [leaf |-> <<Operand("equals", << <<"name", "First Item">> >>)>>],
   [leaf |-> <<Operand("equals", << <<"name", "First Item">>,
                                    <<"tag", "First Item">> >>)>>],
   [leaf |-> <<Operand("not-equals", << <<"name", "Updated Item">> >>),
               Operand("attribute-not-exists", <<"tag">>)>>],
   [leaf |-> <<Operand("between", << <<"tag", <<"First Item", "First Item 2">> >> >>)>>]}

Composites(children) ==
  {[and |-> s] : s \in SeqsUpTo(children, MaxArity)}
    \cup {[or |-> s] : s \in SeqsUpTo(children, MaxArity)}

InnerLeaves ==
  {[leaf |-> <<>>],
   [leaf |-> <<Operand("equals", << <<"name", "First Item">> >>)>>]}

ConditionTrees ==
  LeafMaps \cup Composites(ChildLeaves)
    \cup Composites(InnerLeaves \cup Composites(InnerLeaves))

UpdateConditions ==
  {undefined} \cup ChildLeaves \cup Composites(InnerLeaves)

Updates ==
  {[set |-> << <<"name", "Updated Item">> >>],
   [set |-> << <<"tag", "First Item">> >>],
   [set |-> << <<"name", "Updated Item">>, <<"tag", "Updated Item">> >>],
   [set |-> << <<"tag", "First Item">>, <<"name", "First Item">> >>]}

RangeOperators ==
  {[leaf |-> <<Operand("between", <<"First Item", "Updated Item">>)>>],
   [leaf |-> <<Operand("begins-with", "First Item")>>],
   [leaf |-> <<Operand("greater-than", "First Item")>>],
   [leaf |-> <<Operand("less-than-or-equal-to", "Updated Item")>>]}

RangeKeyConditions ==
  RangeOperators \cup Composites(RangeOperators)

KeySchemas == {[hash |-> "id"], [hash |-> "id", range |-> "tag"]}

KeyConditions ==
  {("id" :> KeyValue)}
    \cup {("id" :> KeyValue) @@ ("tag" :> r) : r \in RangeKeyConditions}

ExprCalls ==
  {[kind |-> "condition", condition |-> c] : c \in ConditionTrees}
    \cup {[kind |-> "update", update |-> u, condition |-> c] :
            u \in Updates, c \in UpdateConditions}
    \cup {[kind |-> "key", schema |-> k, keyCondition |-> c] :
            k \in KeySchemas, c \in KeyConditions}

Returned(value) == [value |-> value]

SerializeCondition ==
  /\ expIn.kind = "condition"
  /\ expOut = NotCalled
  /\ expOut' = Returned(serializeCondition(expIn.condition))
  /\ UNCHANGED expIn
  /\ UNCHANGED notExpr

SerializeUpdate ==
  /\ expIn.kind = "update"
  /\ expOut = NotCalled
  /\ expOut' = Returned(serializeUpdate(expIn.update, expIn.condition))
  /\ UNCHANGED expIn
  /\ UNCHANGED notExpr

SerializeKeyCondition ==
  /\ expIn.kind = "key"
  /\ expOut = NotCalled
  /\ expOut' = Returned(serializeKeyCondition(expIn.schema, expIn.keyCondition))
  /\ UNCHANGED expIn
  /\ UNCHANGED notExpr

InitExpr ==
  /\ UpsertIdle
  /\ BatchIdle
  /\ TxIdle
  /\ TableIdle
  /\ PageIdle
  /\ expIn \in ExprCalls
  /\ expOut = NotCalled

NextExpr == SerializeCondition \/ SerializeUpdate \/ SerializeKeyCondition

SpecExpr == InitExpr /\ [][NextExpr]_vars

(***************************************************************************)
(* Properties of the expression compiler.                                  *)
(***************************************************************************)
\* The number of leaves of a condition tree: one per element of an operand
\* list or map; an undefined operand has none.
RECURSIVE LeafCount(_)
RECURSIVE LeafCountAll(_)
LeafCountAll(trees) ==
  IF trees = <<>> THEN 0 ELSE LeafCount(Head(trees)) + LeafCountAll(Tail(trees))

RECURSIVE OperandCount(_)
OperandCount(entries) ==
  IF entries = <<>> THEN 0
  ELSE (IF "value" \in DOMAIN Head(entries) THEN Len(Head(entries).value) ELSE 0)
         + OperandCount(Tail(entries))

LeafCount(tree) ==
  IF "or" \in DOMAIN tree THEN LeafCountAll(tree.or)
  ELSE IF "and" \in DOMAIN tree THEN LeafCountAll(tree.and)
  ELSE OperandCount(tree.leaf)

\* The attribute names a condition tree refers to.
RECURSIVE AttrsOfTree(_)
AttrsOfOperand(e) ==
  IF "value" \notin DOMAIN e THEN {}
  ELSE IF e.key \in {"attribute-exists", "attribute-not-exists"}
    THEN Range(e.value)
    ELSE {e.value[i][1] : i \in DOMAIN e.value}

AttrsOfTree(tree) ==
  IF "or" \in DOMAIN tree
    THEN UNION {AttrsOfTree(tree.or[i]) : i \in DOMAIN tree.or}
  ELSE IF "and" \in DOMAIN tree
    THEN UNION {AttrsOfTree(tree.and[i]) : i \in DOMAIN tree.and}
  ELSE UNION {AttrsOfOperand(tree.leaf[i]) : i \in DOMAIN tree.leaf}

\* The attribute names the input of a compile call refers to.
AttrsOfCall(call) ==
  CASE call.kind = "condition" -> AttrsOfTree(call.condition)
    [] call.kind = "update" ->
         {call.update.set[i][1] : i \in DOMAIN call.update.set}
           \cup (IF IsUndefined(call.condition) THEN {}
                 ELSE AttrsOfTree(call.condition))
    [] call.kind = "key" ->
         {call.schema.hash}
           \cup (IF "range" \in DOMAIN call.schema
                      /\ call.schema.range \in DOMAIN call.keyCondition
                   THEN AttrsOfTree(serializeRangeKeyCondition(
                          call.schema.range, call.keyCondition[call.schema.range]))
                   ELSE {})

\* The tokens of an expression that are neither syntax nor value
\* placeholders: the name placeholders.
Syntax ==
  {"(", ")", ",", "=", "<>", ">", ">=", "<", "<=", "AND", "OR", "BETWEEN", "SET",
   "begins_with", "attribute_exists", "attribute_not_exists"}

ValuePlaceholders == {":ref" \o ToString(i) : i \in 0..20}

TokensOf(out, field) ==
  IF field \in DOMAIN out /\ ~IsUndefined(out[field])
    THEN Range(out[field].tokens) ELSE {}

NameTokens(out) ==
  (TokensOf(out, "ConditionExpression") \cup TokensOf(out, "UpdateExpression")
     \cup TokensOf(out, "KeyConditionExpression"))
    \ (Syntax \cup ValuePlaceholders)

\* C19: serializeCondition returns the empty result, no expression and no
\* name or value table, for every condition tree without a leaf.
C19_NoLeavesEmptyResult ==
  (expIn.kind = "condition" /\ expOut # NotCalled /\ LeafCount(expIn.condition) = 0)
    => expOut.value = EmptyMap

C19_Witness ==
  /\ expIn.kind = "condition"
  /\ expOut # NotCalled
  /\ expOut.value = EmptyMap
  /\ "and" \in DOMAIN expIn.condition
  /\ Len(expIn.condition.and) = 2
  /\ "or" \in DOMAIN expIn.condition.and[1]
  /\ expIn.condition.and[2] = [leaf |-> <<>>]

\* C20: in the output of a compile call, the name placeholders of the
\* expressions are the entries of the name table, the table has one entry
\* for each attribute name the input refers to, and no two entries for the
\* same attribute name.
C20_NameTable ==
  (expOut # NotCalled /\ "ExpressionAttributeNames" \in DOMAIN expOut.value) =>
    LET names == expOut.value.ExpressionAttributeNames
    IN /\ NameTokens(expOut.value) = DOMAIN names
       /\ {names[r] : r \in DOMAIN names} = AttrsOfCall(expIn)
       /\ \A r1, r2 \in DOMAIN names : names[r1] = names[r2] => r1 = r2
       /\ Cardinality(DOMAIN names) = Cardinality(AttrsOfCall(expIn))

C20_Witness ==
  /\ expIn.kind = "update"
  /\ expOut # NotCalled
  /\ expIn.update = [set |-> << <<"name", "Updated Item">> >>]
  /\ expIn.condition =
       [leaf |-> <<Operand("not-equals", << <<"name", "Updated Item">> >>),
                   Operand("attribute-not-exists", <<"tag">>)>>]
  /\ expOut.value.ExpressionAttributeNames = ("#name" :> "name") @@ ("#tag" :> "tag")

\* The values a condition tree hands to getObjectRef, in the order of the
\* entries: one per comparison operand, two per between, none per existence
\* operand.
RECURSIVE ValuesOfEntries(_, _)
ValuesOfEntries(key, entries) ==
  IF entries = <<>> \/ key \in {"attribute-exists", "attribute-not-exists"} THEN <<>>
  ELSE (IF key = "between" THEN Head(entries)[2] ELSE <<Head(entries)[2]>>)
         \o ValuesOfEntries(key, Tail(entries))

RECURSIVE ValuesOfLeaf(_)
ValuesOfLeaf(entries) ==
  IF entries = <<>> THEN <<>>
  ELSE (IF "value" \in DOMAIN Head(entries)
          THEN ValuesOfEntries(Head(entries).key, Head(entries).value) ELSE <<>>)
         \o ValuesOfLeaf(Tail(entries))

RECURSIVE ValuesOfTree(_)
RECURSIVE ValuesOfTrees(_)
ValuesOfTrees(trees) ==
  IF trees = <<>> THEN <<>>
  ELSE ValuesOfTree(Head(trees)) \o ValuesOfTrees(Tail(trees))

ValuesOfTree(tree) ==
  IF "or" \in DOMAIN tree THEN ValuesOfTrees(tree.or)
  ELSE IF "and" \in DOMAIN tree THEN ValuesOfTrees(tree.and)
  ELSE ValuesOfLeaf(tree.leaf)

\* The values of the condition of an update call, and of its assignments.
ConditionValues(call) ==
  IF IsUndefined(call.condition) THEN <<>> ELSE ValuesOfTree(call.condition)

UpdateValues(call) == [i \in DOMAIN call.update.set |-> call.update.set[i][2]]

\* The values in the input of a compile call, in input order.
ValuesOfCall(call) ==
  CASE call.kind = "condition" -> ValuesOfTree(call.condition)
    [] call.kind = "update" -> ConditionValues(call) \o UpdateValues(call)
    [] call.kind = "key" ->
         <<call.keyCondition[call.schema.hash]>>
           \o (IF "range" \in DOMAIN call.schema
                     /\ call.schema.range \in DOMAIN call.keyCondition
                 THEN ValuesOfTree(serializeRangeKeyCondition(
                        call.schema.range, call.keyCondition[call.schema.range]))
                 ELSE <<>>)

\* The value table of an output: empty when the field is absent or undefined.
ValueTable(out) ==
  IF "ExpressionAttributeValues" \in DOMAIN out
       /\ ~IsUndefined(out.ExpressionAttributeValues)
    THEN out.ExpressionAttributeValues ELSE EmptyMap

\* The tokens of an expression of the output, in order.
TokenSeq(out, field) ==
  IF field \in DOMAIN out /\ ~IsUndefined(out[field]) THEN out[field].tokens ELSE <<>>

IsValuePlaceholder(t) == t \in ValuePlaceholders

\* The value placeholders of the output, in the order they were emitted.
PlaceholderSeq(out) ==
  SelectSeq(TokenSeq(out, "ConditionExpression") \o TokenSeq(out, "UpdateExpression")
              \o TokenSeq(out, "KeyConditionExpression"),
            IsValuePlaceholder)

Ref(i) == ":ref" \o ToString(i)

\* C21: in the output of a compile call the value table has one entry per
\* value in the input, equal values included; the placeholders are :ref0,
\* :ref1, ... in the order of the input, each used once in the expressions
\* in that order, and each maps to the value at its place in the input.
C21_ValueTable ==
  expOut # NotCalled =>
    LET vals == ValuesOfCall(expIn)
        values == ValueTable(expOut.value)
    IN /\ Cardinality(DOMAIN values) = Len(vals)
       /\ DOMAIN values = {Ref(i - 1) : i \in 1..Len(vals)}
       /\ \A i \in 1..Len(vals) : values[Ref(i - 1)] = vals[i]
       /\ PlaceholderSeq(expOut.value) = [i \in 1..Len(vals) |-> Ref(i - 1)]

\* Two equal values, a between and an existence operator in one call.
C21_Witness ==
  /\ expIn.kind = "condition"
  /\ expOut # NotCalled
  /\ expIn.condition =
       [leaf |-> <<Operand("equals", << <<"name", "First Item">>,
                                        <<"tag", "First Item">> >>),
                   Operand("between", << <<"tag", <<"First Item", "Updated Item">> >> >>)>>]
  /\ ValueTable(expOut.value) =
       (":ref0" :> "First Item") @@ (":ref1" :> "First Item")
         @@ (":ref2" :> "First Item") @@ (":ref3" :> "Updated Item")

\* The fragments of the children of a composite that are kept: compiled in
\* child order in the context of the call, the ones without text dropped.
ChildFragments(children) ==
  SelectSeq(SerializeAll(children, createRefContext).out, Truthy)

RECURSIVE Parenthesized(_, _)
Parenthesized(frags, keyword) ==
  IF Len(frags) = 1 THEN <<"(">> \o frags[1].tokens \o <<")">>
  ELSE <<"(">> \o frags[1].tokens \o <<")", keyword>>
         \o Parenthesized(Tail(frags), keyword)

IsComposite(tree) == "or" \in DOMAIN tree \/ "and" \in DOMAIN tree

ChildrenOf(tree) == IF "or" \in DOMAIN tree THEN tree.or ELSE tree.and

KeywordOf(tree) == IF "or" \in DOMAIN tree THEN "OR" ELSE "AND"

\* C22: a composite with one child that has a fragment compiles to that
\* fragment as it is; with two or more, to the fragments in child order,
\* each in parentheses, joined by the keyword of the composite.  Children
\* without a fragment do not count.
C22_Composite ==
  (expIn.kind = "condition" /\ expOut # NotCalled /\ IsComposite(expIn.condition)) =>
    LET frags == ChildFragments(ChildrenOf(expIn.condition))
    IN /\ Len(frags) = 1 => expOut.value.ConditionExpression = frags[1]
       /\ Len(frags) >= 2 =>
            expOut.value.ConditionExpression.tokens
              = Parenthesized(frags, KeywordOf(expIn.condition))

\* An or of two leaves, the second with two operators.
C22_Witness ==
  /\ expIn.kind = "condition"
  /\ expOut # NotCalled
  /\ "or" \in DOMAIN expIn.condition
  /\ Len(expIn.condition.or) = 2
  /\ Len(ChildFragments(expIn.condition.or)) = 2
  /\ expOut.value.ConditionExpression.tokens =
       <<"(", "#name", "=", ":ref0", ")", "OR",
         "(", "#name", "<>", ":ref1", "AND", "attribute_not_exists", "(", "#tag", ")", ")">>

\* An and of two children of which one has a fragment.
C22_WitnessOne ==
  /\ expIn.kind = "condition"
  /\ expOut # NotCalled
  /\ "and" \in DOMAIN expIn.condition
  /\ Len(expIn.condition.and) = 2
  /\ Len(ChildFragments(expIn.condition.and)) = 1
  /\ expOut.value.ConditionExpression.tokens = <<"#name", "=", ":ref0">>

\* The value placeholders of one expression of the output, in order.
PlaceholdersOf(out, field) == SelectSeq(TokenSeq(out, field), IsValuePlaceholder)

\* The attribute names of the condition of an update call.
ConditionAttrs(call) ==
  IF IsUndefined(call.condition) THEN {} ELSE AttrsOfTree(call.condition)

\* C23: serializeUpdate compiles the condition and the update clause with
\* one context.  The condition's placeholders are the first numbers, in
\* order, and the update's the following ones, so none is in both; the name
\* table has one entry for an attribute, also when both name it; the update
\* expression is SET and one assignment per entry of the set, in the order
\* of the entries, separated by commas.
C23_SharedContext ==
  (expIn.kind = "update" /\ expOut # NotCalled) =>
    LET out == expOut.value
        nc == Len(ConditionValues(expIn))
        set == expIn.update.set
        n == Len(set)
        u == out.UpdateExpression.tokens
    IN /\ PlaceholdersOf(out, "ConditionExpression") = [i \in 1..nc |-> Ref(i - 1)]
       /\ PlaceholdersOf(out, "UpdateExpression") = [i \in 1..n |-> Ref(nc + i - 1)]
       /\ Range(PlaceholdersOf(out, "ConditionExpression"))
            \cap Range(PlaceholdersOf(out, "UpdateExpression")) = {}
       /\ \A a \in ConditionAttrs(expIn) \cup {set[i][1] : i \in 1..n} :
            /\ ("#" \o a) \in DOMAIN out.ExpressionAttributeNames
            /\ Cardinality({r \in DOMAIN out.ExpressionAttributeNames :
                              out.ExpressionAttributeNames[r] = a}) = 1
       /\ Len(u) = 4 * n
       /\ u[1] = "SET"
       /\ \A i \in 1..n :
            /\ u[4 * i - 2] = "#" \o set[i][1]
            /\ u[4 * i - 1] = "="
            /\ u[4 * i] = Ref(nc + i - 1)
            /\ out.ExpressionAttributeValues[u[4 * i]] = set[i][2]
            /\ i < n => u[4 * i + 1] = ","

\* A condition with two values on name and tag, and an update of both.
C23_Witness ==
  /\ expIn.kind = "update"
  /\ expOut # NotCalled
  /\ expIn.condition =
       [leaf |-> <<Operand("equals", << <<"name", "First Item">>,
                                        <<"tag", "First Item">> >>)>>]
  /\ expOut.value.UpdateExpression.tokens =
       <<"SET", "#tag", "=", ":ref2", ",", "#name", "=", ":ref3">>
  /\ DOMAIN expOut.value.ExpressionAttributeNames = {"#name", "#tag"}

\* A key-condition call has a range term: the schema has a range key and
\* the key condition an entry for it.
HasRangeTerm(call) ==
  "range" \in DOMAIN call.schema /\ call.schema.range \in DOMAIN call.keyCondition

\* The hash equality of a key-condition call.
HashEquality(call) == <<"#" \o call.schema.hash, "=", ":ref0">>

\* The fragment of the range term, compiled after the hash equality.
RangeFragment(call) ==
  SerializeAll(
    <<[leaf |-> <<Operand("equals",
                    << <<call.schema.hash, call.keyCondition[call.schema.hash]>> >>)>>],
      serializeRangeKeyCondition(call.schema.range,
                                 call.keyCondition[call.schema.range])>>,
    createRefContext).out[2]

\* C25 as stated: whenever the key condition has a range term, the
\* expression is the hash equality and the range fragment, each in
\* parentheses, joined by AND.
C25_RangeTermParenthesized ==
  (expIn.kind = "key" /\ expOut # NotCalled /\ HasRangeTerm(expIn)) =>
    /\ Len(expOut.value.KeyConditionExpression.tokens) > 7
    /\ SubSeq(expOut.value.KeyConditionExpression.tokens, 1, 7)
         = <<"(">> \o HashEquality(expIn) \o <<")", "AND", "(">>

\* C25: serializeKeyCondition always emits the hash equality, first and
\* with the first value placeholder, which holds the hash value.  With a
\* range term that has a fragment, the expression is the hash equality and
\* that fragment, each in parentheses, joined by AND; with no range term, a
\* range term without a fragment, or a schema without a range key, it is the
\* hash equality alone.
C25_HashEquality ==
  (expIn.kind = "key" /\ expOut # NotCalled) =>
    /\ expOut.value.ExpressionAttributeValues[":ref0"]
         = expIn.keyCondition[expIn.schema.hash]
    /\ IF HasRangeTerm(expIn) /\ Truthy(RangeFragment(expIn))
         THEN expOut.value.KeyConditionExpression.tokens
                = <<"(">> \o HashEquality(expIn) \o <<")", "AND", "(">>
                    \o RangeFragment(expIn).tokens \o <<")">>
         ELSE expOut.value.KeyConditionExpression.tokens = HashEquality(expIn)

\* A between on the range key.
C25_Witness ==
  /\ expIn.kind = "key"
  /\ expOut # NotCalled
  /\ HasRangeTerm(expIn)
  /\ expOut.value.KeyConditionExpression.tokens =
       <<"(", "#id", "=", ":ref0", ")", "AND",
         "(", "(", "#tag", "BETWEEN", ":ref1", "AND", ":ref2", ")", ")">>

(***************************************************************************)
(* dynamo-table.ts: PageToken.  A JavaScript value is a string (Str of its *)
(* characters), a number, a Uint8Array, a plain object (its entries in     *)
(* insertion order, each <<name, value>> with the name a list of           *)
(* characters) or undefined.  JSON text and base64 text are lists of       *)
(* characters; a Buffer is a list of bytes.                                *)
(***************************************************************************)
JsNumber(n) == [type |-> "number", n |-> n]

JsBytes(bytes) == [type |-> "Uint8Array", bytes |-> bytes]

JsObject(entries) == [type |-> "object", entries |-> entries]

\* The truthiness of a value: `data ? ... : undefined`.
ToBoolean(x) ==
  CASE x.type = "undefined" -> FALSE
    [] x.type = "string" -> x.tokens # <<>>
    [] x.type = "number" -> x.n # 0
    [] OTHER -> TRUE

DigitChars == <<"0", "1", "2", "3", "4", "5", "6", "7", "8", "9">>

IsDigit(c) == \E i \in 1..10 : DigitChars[i] = c

DigitValue(c) == (CHOOSE i \in 1..10 : DigitChars[i] = c) - 1

\* The decimal text of a non-negative integer.
RECURSIVE NumberText(_)
NumberText(n) ==
  IF n < 10 THEN <<DigitChars[n + 1]>>
  ELSE NumberText(n \div 10) \o <<DigitChars[(n % 10) + 1]>>

\* JSON.stringify of a string: in quotes, quote and backslash escaped.
RECURSIVE Escaped(_)
Escaped(chars) ==
  IF chars = <<>> THEN <<>>
  ELSE (IF Head(chars) \in {"\"", "\\"} THEN <<"\\", Head(chars)>> ELSE <<Head(chars)>>)
         \o Escaped(Tail(chars))

Quoted(chars) == <<"\"">> \o Escaped(chars) \o <<"\"">>

\* The own enumerable properties of a Uint8Array: its indices.
IndexEntries(bytes) ==
  [i \in 1..Len(bytes) |-> <<NumberText(i - 1), JsNumber(bytes[i])>>]

\* JSON.stringify(value).  A Uint8Array has no toJSON and is written as the
\* object of its indices.
RECURSIVE JSONstringify(_)
RECURSIVE MembersText(_)
MembersText(entries) ==
  IF entries = <<>> THEN <<>>
  ELSE Quoted(Head(entries)[1]) \o <<":">> \o JSONstringify(Head(entries)[2])
         \o (IF Len(entries) > 1 THEN <<",">> ELSE <<>>)
         \o MembersText(Tail(entries))

JSONstringify(value) ==
  CASE value.type = "string" -> Quoted(value.tokens)
    [] value.type = "number" -> NumberText(value.n)
    [] value.type = "Uint8Array" ->
         <<"{">> \o MembersText(IndexEntries(value.bytes)) \o <<"}">>
    [] value.type = "object" -> <<"{">> \o MembersText(value.entries) \o <<"}">>

\* JSON.parse(text), from position p on: the value and the position after it.
RECURSIVE ParseString(_, _, _)
ParseString(text, p, chars) ==
  IF text[p] = "\"" THEN [v |-> chars, p |-> p + 1]
  ELSE IF text[p] = "\\" THEN ParseString(text, p + 2, Append(chars, text[p + 1]))
  ELSE ParseString(text, p + 1, Append(chars, text[p]))

RECURSIVE ParseNumber(_, _, _)
ParseNumber(text, p, n) ==
  IF p <= Len(text) /\ IsDigit(text[p])
    THEN ParseNumber(text, p + 1, 10 * n + DigitValue(text[p]))
    ELSE [v |-> JsNumber(n), p |-> p]

RECURSIVE ParseValue(_, _)
RECURSIVE ParseMembers(_, _, _)
ParseMembers(text, p, entries) ==
  LET Next_(name, value) ==
        IF text[value.p] = ","
          THEN ParseMembers(text, value.p + 1, Append(entries, <<name.v, value.v>>))
          ELSE [v |-> JsObject(Append(entries, <<name.v, value.v>>)),
                p |-> value.p + 1]
      Member(name) == Next_(name, ParseValue(text, name.p + 1))
  IN Member(ParseString(text, p + 1, <<>>))

ParseValue(text, p) ==
  IF text[p] = "\"" THEN
    LET AsString(r) == [v |-> Str(r.v), p |-> r.p]
    IN AsString(ParseString(text, p + 1, <<>>))
  ELSE IF text[p] = "{" THEN
    IF text[p + 1] = "}" THEN [v |-> JsObject(<<>>), p |-> p + 2]
    ELSE ParseMembers(text, p + 1, <<>>)
  ELSE ParseNumber(text, p, 0)

JSONparse(text) == ParseValue(text, 1).v

\* The characters of the texts at hand and their UTF-8 bytes (all ASCII).
CharCode ==
  ("\"" :> 34) @@ ("," :> 44) @@ ("0" :> 48) @@ ("1" :> 49) @@ ("2" :> 50)
    @@ ("3" :> 51) @@ ("4" :> 52) @@ ("5" :> 53) @@ ("6" :> 54) @@ ("7" :> 55)
    @@ ("8" :> 56) @@ ("9" :> 57) @@ (":" :> 58) @@ ("\\" :> 92) @@ ("a" :> 97)
    @@ ("b" :> 98) @@ ("d" :> 100) @@ ("g" :> 103) @@ ("i" :> 105)
    @@ ("t" :> 116) @@ ("u" :> 117) @@ ("{" :> 123) @@ ("}" :> 125)

\* Buffer.from(text): the UTF-8 bytes of the text.
BufferFromUtf8(text) == [i \in 1..Len(text) |-> CharCode[text[i]]]

\* buffer.toString('utf8')
ToStringUtf8(bytes) ==
  [i \in 1..Len(bytes) |-> CHOOSE c \in DOMAIN CharCode : CharCode[c] = bytes[i]]

Base64Alphabet ==
  <<"A", "B", "C", "D", "E", "F", "G", "H", "I", "J", "K", "L", "M", "N", "O", "P",
    "Q", "R", "S", "T", "U", "V", "W", "X", "Y", "Z", "a", "b", "c", "d", "e", "f",
    "g", "h", "i", "j", "k", "l", "m", "n", "o", "p", "q", "r", "s", "t", "u", "v",
    "w", "x", "y", "z", "0", "1", "2", "3", "4", "5", "6", "7", "8", "9", "+", "/">>

Base64Char(sextet) == Base64Alphabet[sextet + 1]

Base64Value(c) == (CHOOSE i \in 1..64 : Base64Alphabet[i] = c) - 1

\* buffer.toString('base64'): four characters for three bytes, padded.
RECURSIVE ToStringBase64(_)
ToStringBase64(bytes) ==
  IF bytes = <<>> THEN <<>>
  ELSE IF Len(bytes) = 1 THEN
    <<Base64Char(bytes[1] \div 4), Base64Char((bytes[1] % 4) * 16), "=", "=">>
  ELSE IF Len(bytes) = 2 THEN
    <<Base64Char(bytes[1] \div 4),
      Base64Char((bytes[1] % 4) * 16 + bytes[2] \div 16),
      Base64Char((bytes[2] % 16) * 4), "=">>
  ELSE
    <<Base64Char(bytes[1] \div 4),
      Base64Char((bytes[1] % 4) * 16 + bytes[2] \div 16),
      Base64Char((bytes[2] % 16) * 4 + bytes[3] \div 64),
      Base64Char(bytes[3] % 64)>>
      \o ToStringBase64(SubSeq(bytes, 4, Len(bytes)))

\* Buffer.from(text, 'base64')
RECURSIVE BufferFromBase64(_)
BufferFromBase64(text) ==
  IF Len(text) < 4 THEN <<>>
  ELSE
    (IF text[3] = "=" THEN
       <<Base64Value(text[1]) * 4 + Base64Value(text[2]) \div 16>>
     ELSE IF text[4] = "=" THEN
       <<Base64Value(text[1]) * 4 + Base64Value(text[2]) \div 16,
         (Base64Value(text[2]) % 16) * 16 + Base64Value(text[3]) \div 4>>
     ELSE
       <<Base64Value(text[1]) * 4 + Base64Value(text[2]) \div 16,
         (Base64Value(text[2]) % 16) * 16 + Base64Value(text[3]) \div 4,
         (Base64Value(text[3]) % 4) * 64 + Base64Value(text[4])>>)
      \o BufferFromBase64(SubSeq(text, 5, Len(text)))

\* PageToken.encode
PageTokenEncode(data) ==
  IF ToBoolean(data)
    THEN Str(ToStringBase64(BufferFromUtf8(JSONstringify(data))))
    ELSE undefined

\* PageToken.decode
PageTokenDecode(token) ==
  IF ToBoolean(token)
    THEN JSONparse(ToStringUtf8(BufferFromBase64(token.tokens)))
    ELSE undefined

(***************************************************************************)
(* dynamo-table.ts: _scan and _query.  The store keeps the keys of the     *)
(* items of a table in its own order; a page is the next Limit items after *)
(* the ExclusiveStartKey, and its LastEvaluatedKey is the key of its last  *)
(* item when the limit was reached.  A start key that is the key of no     *)
(* item of the table (a value of another type than the key attribute) is   *)
(* rejected.                                                               *)
(***************************************************************************)
NameChars == ("id" :> <<"i", "d">>) @@ ("tag" :> <<"t", "a", "g">>)

HashKeyOf(id) == JsObject(<< <<NameChars["id"], id>> >>)

RangeKeyOf(id, tag) == JsObject(<< <<NameChars["id"], id>>, <<NameChars["tag"], tag>> >>)

\* The tables: a string hash key, a string hash and range key, a number
\* hash key, a binary hash key.
PageTables ==
  {[keys |-> [hash |-> "id"],
    items |-> <<HashKeyOf(Str(<<"u", "1">>)), HashKeyOf(Str(<<"u", "2">>)),
                HashKeyOf(Str(<<"a", "\"", "b">>)), HashKeyOf(Str(<<"u", "3">>))>>],
   [keys |-> [hash |-> "id", range |-> "tag"],
    items |-> <<RangeKeyOf(Str(<<"u", "1">>), Str(<<"a">>)),
                RangeKeyOf(Str(<<"u", "1">>), Str(<<"a", "\\", "b">>)),
                RangeKeyOf(Str(<<"u", "1">>), Str(<<"b">>)),
                RangeKeyOf(Str(<<"u", "2">>), Str(<<"a">>))>>],
   [keys |-> [hash |-> "id"],
    items |-> <<HashKeyOf(JsNumber(7)), HashKeyOf(JsNumber(0)),
                HashKeyOf(JsNumber(120)), HashKeyOf(JsNumber(45))>>],
   [keys |-> [hash |-> "id"],
    items |-> <<HashKeyOf(JsBytes(<<1, 200>>)), HashKeyOf(JsBytes(<<2>>)),
                HashKeyOf(JsBytes(<<255, 0, 64>>))>>]}

StartKeyError ==
  [name |-> "ValidationException",
   message |-> "The provided starting key is invalid"]

\* The value of an attribute of a key.
AttributeOf(key, name) ==
  key.entries[CHOOSE i \in DOMAIN key.entries : key.entries[i][1] = NameChars[name]][2]

\* The items a request reads: all of them for a scan, for a query the ones
\* its key condition `#hash = :ref0` selects.
Selected(items, request) ==
  IF "KeyConditionExpression" \notin DOMAIN request THEN items
  ELSE SelectSeq(items,
         LAMBDA k :
           AttributeOf(k, request.ExpressionAttributeNames[
                            request.KeyConditionExpression.tokens[1]])
             = request.ExpressionAttributeValues[
                 request.KeyConditionExpression.tokens[3]])

\* client.scan and client.query: the page of the request.
StorePage(items, request) ==
  LET PageFrom(from) ==
        LET PageTo(to) ==
              [error |-> NoError,
               Items |-> SubSeq(items, from + 1, to),
               LastEvaluatedKey |->
                 IF to - from = request.Limit THEN items[to] ELSE undefined]
        IN PageTo(IF from + request.Limit < Len(items)
                    THEN from + request.Limit ELSE Len(items))
  IN IF IsUndefined(request.ExclusiveStartKey) THEN PageFrom(0)
     ELSE IF \E i \in DOMAIN items : items[i] = request.ExclusiveStartKey
       THEN PageFrom(CHOOSE i \in DOMAIN items : items[i] = request.ExclusiveStartKey)
       ELSE [error |-> StartKeyError, Items |-> <<>>, LastEvaluatedKey |-> undefined]

\* What _scan and _query return, or the error they reject with.
PageResponse(page) ==
  IF page.error # NoError
    THEN [error |-> page.error, items |-> <<>>, nextPageToken |-> undefined,
          LastEvaluatedKey |-> undefined]
    ELSE [error |-> NoError, items |-> page.Items,
          nextPageToken |-> PageTokenEncode(page.LastEvaluatedKey),
          LastEvaluatedKey |-> page.LastEvaluatedKey]

\* The nextPageToken option of a call: the token the previous call of the
\* same kind returned, or none.
TokenOption(op, resume) == IF resume THEN pgResponse.nextPageToken ELSE undefined

CanResume(op) ==
  /\ pgCall # NotCalled
  /\ pgCall.op = op
  /\ ~IsUndefined(pgResponse.nextPageToken)

\* A call is made with the request `request`.
Paged(op, resume, request) ==
  /\ pgCall' = [op |-> op, resumed |-> resume, request |-> request]
  /\ pgResponse' = PageResponse(StorePage(Selected(pgTable.items, request), request))
  /\ pgPrev' = IF resume THEN pgResponse.LastEvaluatedKey ELSE undefined
  /\ pgCalls' = pgCalls + 1
  /\ UNCHANGED <<pgTable, da>>
  /\ UNCHANGED notPage

\* scan(options)
Scan(limit, resume) ==
  /\ pgCalls < MaxPages
  /\ resume => CanResume("scan")
  /\ Paged("scan", resume,
           [TableName |-> tableName, Limit |-> limit,
            ExclusiveStartKey |-> PageTokenDecode(TokenOption("scan", resume))])

\* query(key, options), the key condition being the hash key of the first
\* item of the table.
Query(limit, resume) ==
  /\ pgCalls < MaxPages
  /\ resume => CanResume("query")
  /\ Paged("query", resume,
           serializeKeyCondition(pgTable.keys,
             (pgTable.keys.hash :> AttributeOf(pgTable.items[1], pgTable.keys.hash)))
           @@ [TableName |-> tableName, Limit |-> limit,
               ExclusiveStartKey |-> PageTokenDecode(TokenOption("query", resume))])

InitPage ==
  /\ UpsertIdle
  /\ BatchIdle
  /\ TxIdle
  /\ ExprIdle
  /\ TableIdle
  /\ pgTable \in PageTables
  /\ pgCall = NotCalled
  /\ pgResponse = NotCalled
  /\ pgPrev = NotCalled
  /\ pgCalls = 0
  /\ da = NotCalled

NextPage ==
  \/ \E limit \in 1..MaxLimit, resume \in BOOLEAN : Scan(limit, resume)
  \/ \E limit \in 1..MaxLimit, resume \in BOOLEAN : Query(limit, resume)

SpecPage == InitPage /\ [][NextPage]_vars

(***************************************************************************)
(* Properties of PageToken and of paging.                                  *)
(***************************************************************************)
\* The latest call was resumed with the token of the page before it.
Resumed == pgCall # NotCalled /\ pgCall.resumed

\* C24: the token round trip.  A call resumed with the nextPageToken of the
\* page before it hands the store, as ExclusiveStartKey, the
\* LastEvaluatedKey the store returned with that page (decode(encode(x)) is
\* x); a call without a token hands it none, and a page without a
\* LastEvaluatedKey has no token.
C24_TokenRoundTrip ==
  /\ Resumed => pgCall.request.ExclusiveStartKey = pgPrev
  /\ (pgCall # NotCalled /\ ~pgCall.resumed) =>
       IsUndefined(pgCall.request.ExclusiveStartKey)
  /\ (pgResponse # NotCalled /\ IsUndefined(pgResponse.LastEvaluatedKey)) =>
       IsUndefined(pgResponse.nextPageToken)

\* The round trip on the tables whose key attributes are strings or numbers.
TextKeys ==
  \A i \in DOMAIN pgTable.items : \A j \in DOMAIN pgTable.items[i].entries :
    pgTable.items[i].entries[j][2].type \in {"string", "number"}

C24_TextKeysRoundTrip == (pgTable # NotCalled /\ TextKeys) => C24_TokenRoundTrip

(***************************************************************************)
(* dynamo-table.ts: put, patch and delete.  Each makes one request and     *)
(* settles with the store's answer.  The store evaluates the condition of  *)
(* the request on the item it holds under the key and rejects the request  *)
(* with ConditionalCheckFailedException when it is false.                  *)
(***************************************************************************)
RequestHolds(req, stored) ==
  \/ "ConditionExpression" \notin DOMAIN req
  \/ ConditionHolds(req, stored)

\* client.put
PutItem(stored, req) ==
  IF RequestHolds(req, stored)
    THEN [error |-> NoError, item |-> req.Item]
    ELSE [error |-> ConditionalCheckFailedException(0), item |-> stored]

\* client.delete
DeleteItem(stored, req) ==
  IF RequestHolds(req, stored)
    THEN [error |-> NoError, item |-> NoRecord]
    ELSE [error |-> ConditionalCheckFailedException(0), item |-> stored]

\* The conditions callers attach to a write.
CallerConditions ==
  {[leaf |-> <<Operand("equals", << <<"name", "First Item">> >>)>>],
   [leaf |-> <<Operand("attribute-not-exists", <<"tag">>)>>],
   [leaf |-> <<>>],
   [or |-> <<[leaf |-> <<Operand("equals", << <<"name", "Updated Item">> >>)>>],
             [leaf |-> <<Operand("attribute-exists", <<"tag">>)>>]>>]}

WriteOptions == {NoOptions} \cup {[condition |-> c] : c \in CallerConditions}

PutOptions ==
  WriteOptions
    \cup {[overwrite |-> o] : o \in BOOLEAN}
    \cup {[overwrite |-> o, condition |-> c] : o \in BOOLEAN, c \in CallerConditions}

Resolved_(value) == [status |-> "resolved", value |-> value, error |-> NoError]

Rejected_(error) == [status |-> "rejected", value |-> undefined, error |-> error]

\* The call is made with `request` and the store answers with `answer`.
Written(op, id, options, request, answer, value) ==
  /\ tbCall' = [op |-> op, id |-> id, options |-> options, request |-> request,
                n |-> IF tbCall = NotCalled THEN 1 ELSE tbCall.n + 1]
  /\ tbItems' = [tbItems EXCEPT ![id] = answer.item]
  /\ tbResult' = IF answer.error = NoError
                   THEN Resolved_(value) ELSE Rejected_(answer.error)
  /\ UNCHANGED notTable

CallsLeft == IF tbCall = NotCalled THEN TRUE ELSE tbCall.n < MaxCalls

\* put(record, options)
Put(id, name, options) ==
  /\ CallsLeft
  /\ LET Sent(request) ==
           Written("put", id, options, request,
                   PutItem(tbItems[id], request), TxItem(id, name))
     IN Sent(getPut(TxItem(id, name), options))

\* patch(key, patch, options)
Patch(id, name, options) ==
  /\ CallsLeft
  /\ LET Answered(request, answer) ==
           Written("patch", id, options, request, answer,
                   IF answer.error = NoError THEN Parse(answer.Attributes)
                   ELSE undefined)
         Sent(request) == Answered(request, UpdateItem(tbItems[id], request))
     IN Sent(getPatch(TxKey(id), [set |-> << <<"name", name>> >>], options))

\* delete(key, options)
Delete(id, options) ==
  /\ CallsLeft
  /\ LET Sent(request) ==
           Written("delete", id, options, request,
                   DeleteItem(tbItems[id], request), undefined)
     IN Sent(getDelete(TxKey(id), options))

InitTable ==
  /\ UpsertIdle
  /\ BatchIdle
  /\ TxIdle
  /\ ExprIdle
  /\ PageIdle
  /\ tbItems \in TxStores
  /\ tbCall = NotCalled
  /\ tbResult = NotCalled

NextTable ==
  \/ \E id \in TxKeys, name \in Values, options \in PutOptions : Put(id, name, options)
  \/ \E id \in TxKeys, name \in Values, options \in WriteOptions : Patch(id, name, options)
  \/ \E id \in TxKeys, options \in WriteOptions : Delete(id, options)

SpecTable == InitTable /\ [][NextTable]_vars

(***************************************************************************)
(* Properties of put and patch.                                            *)
(***************************************************************************)
\* The step is a call of the operation `op`.
CallStep(op) == tbCall' # tbCall /\ tbCall'.op = op

Overwrite(options) == "overwrite" \in DOMAIN options /\ options.overwrite

\* C26: a put without overwrite: true on a key that has an item is rejected
\* with ConditionalCheckFailedException and the store keeps its items; a
\* put with overwrite: true and no condition carries no condition and
\* replaces the item.
C26_PutDoesNotReplace ==
  [][CallStep("put") =>
       /\ (~Overwrite(tbCall'.options) /\ tbItems[tbCall'.id] # NoRecord) =>
            /\ tbResult'.status = "rejected"
            /\ tbResult'.error.name = "ConditionalCheckFailedException"
            /\ tbItems' = tbItems
       /\ (Overwrite(tbCall'.options) /\ "condition" \notin DOMAIN tbCall'.options) =>
            /\ "ConditionExpression" \notin DOMAIN tbCall'.request
            /\ tbResult'.status = "resolved"
            /\ tbItems' = [tbItems EXCEPT ![tbCall'.id] = tbCall'.request.Item]]_vars

\* A put of another name on an existing item, with a caller condition the
\* item satisfies, is rejected.
C26_Witness ==
  /\ tbCall # NotCalled
  /\ tbCall.n = 1
  /\ tbCall.op = "put"
  /\ tbCall.options =
       [condition |-> [leaf |-> <<Operand("equals", << <<"name", "First Item">> >>)>>]]
  /\ tbCall.request.Item = TxItem("user-1", "Updated Item")
  /\ tbItems["user-1"] = TxItem("user-1", "First Item")
  /\ tbResult.status = "rejected"

\* The condition of a patch request, read on an item: the hash key exists
\* and the caller's condition holds.
CallerHolds(options, stored) ==
  \/ "condition" \notin DOMAIN options
  \/ LET tree == options.condition
         Leaf(l) ==
           \A i \in DOMAIN l.leaf : \A j \in DOMAIN l.leaf[i].value :
             CASE l.leaf[i].key = "equals" ->
                    /\ l.leaf[i].value[j][1] \in DOMAIN stored
                    /\ stored[l.leaf[i].value[j][1]] = l.leaf[i].value[j][2]
               [] l.leaf[i].key = "attribute-exists" ->
                    l.leaf[i].value[j] \in DOMAIN stored
               [] l.leaf[i].key = "attribute-not-exists" ->
                    l.leaf[i].value[j] \notin DOMAIN stored
     IN IF "or" \in DOMAIN tree THEN \E k \in DOMAIN tree.or : Leaf(tree.or[k])
        ELSE Leaf(tree)

\* C27: a patch never creates a record.  On a key without an item it is
\* rejected with ConditionalCheckFailedException and the key stays without
\* one; on an item that does not meet the caller's condition it is rejected
\* and the item is unchanged; otherwise it resolves and the item has the
\* new values.
C27_PatchNeverCreates ==
  [][CallStep("patch") =>
       LET stored == tbItems[tbCall'.id]
       IN /\ (stored = NoRecord \/ ~CallerHolds(tbCall'.options, stored)) =>
               /\ tbResult'.status = "rejected"
               /\ tbResult'.error.name = "ConditionalCheckFailedException"
               /\ tbItems' = tbItems
          /\ (stored # NoRecord /\ CallerHolds(tbCall'.options, stored)) =>
               /\ tbResult'.status = "resolved"
               /\ tbItems'[tbCall'.id] # NoRecord]_vars

\* A patch of a key without an item whose caller condition, that the item
\* has no tag, holds of the absent item.
C27_Witness ==
  /\ tbCall # NotCalled
  /\ tbCall.n = 1
  /\ tbCall.op = "patch"
  /\ tbCall.options =
       [condition |-> [leaf |-> <<Operand("attribute-not-exists", <<"tag">>)>>]]
  /\ tbItems[tbCall.id] = NoRecord
  /\ tbResult.status = "rejected"
  /\ tbResult.error.name = "ConditionalCheckFailedException"

(***************************************************************************)
(* Properties of upsert on tables with a range key.                        *)
(***************************************************************************)
KeyAttributes == DOMAIN TableKey

\* C28: no update request of upsert assigns a key attribute of the table,
\* hash key or range key.
C28_NoKeyAssigned ==
  updating # NoRequest => Assigned(updating) \cap KeyAttributes = {}

\* The hash key is never assigned.
C28_HashNotAssigned ==
  updating # NoRequest => hash \notin Assigned(updating)

\* On a table with a range key, the update request of a rename.
C28_RangeAssigned ==
  /\ "range" \in DOMAIN upKeys
  /\ mod = "rename"
  /\ updating # NoRequest
  /\ upKeys.range \in Assigned(updating)

(***************************************************************************)
(* Leafless conditions attached to an update.                              *)
(***************************************************************************)
Leafless(call) ==
  /\ call.kind = "update"
  /\ ~IsUndefined(call.condition)
  /\ LeafCount(call.condition) = 0

\* C29: a condition without leaves attached to serializeUpdate yields an
\* absent ConditionExpression, never an empty string.
C29_LeaflessAbsent ==
  (expOut # NotCalled /\ Leafless(expIn)) =>
    IsUndefined(expOut.value.ConditionExpression)

\* A leaf map without leaves attached to serializeUpdate yields an absent
\* ConditionExpression.
C29_LeaflessLeafAbsent ==
  (expOut # NotCalled /\ Leafless(expIn) /\ "leaf" \in DOMAIN expIn.condition) =>
    IsUndefined(expOut.value.ConditionExpression)

\* serializeUpdate returned the empty string for the condition {and: []}.
C29_EmptyString ==
  /\ expOut # NotCalled
  /\ expIn.kind = "update"
  /\ expIn.condition = [and |-> <<>>]
  /\ expOut.value.ConditionExpression = Str(<<>>)

(***************************************************************************)
(* The write list at the start of a run.                                   *)
(***************************************************************************)
\* C30: every run starts with an empty write list, however the runs before
\* it on the instance ended; its commit holds no write of an earlier run.
C30_RunStartsEmpty == txRun.start = <<>>

\* A run whose synchronous callback registered two writes committed three:
\* the first was registered by the callback of an earlier run, which threw.
C30_StaleWriteCommitted ==
  /\ txRun.callback = "putAndPatch"
  /\ txRun.pc = "resolved"
  /\ txLate = <<>>
  /\ txRun.start = WriteItems(SyncCalls("throwsAfterPut"))
  /\ txRun.committed = txRun.start \o WriteItems(SyncCalls("putAndPatch"))

(***************************************************************************)
(* The meaning of a condition tree on a record: a leaf map is the          *)
(* conjunction of its operators applied to each of their entries, `and`    *)
(* the conjunction and `or` the disjunction of the children.  The compiled *)
(* expression is read by the store (ConditionHolds); a result without an   *)
(* expression is no condition at all.                                      *)
(***************************************************************************)
EntryHolds(key, entry, record) ==
  IF key = "attribute-exists" THEN entry \in DOMAIN record
  ELSE IF key = "attribute-not-exists" THEN entry \notin DOMAIN record
  ELSE IF key = "between"
    THEN IsBetween(record, entry[1], entry[2][1], entry[2][2])
  ELSE IF key = "begins-with"
    THEN Compares("begins_with", record, entry[1], entry[2])
  ELSE Compares(ComparatorOf(key), record, entry[1], entry[2])

RECURSIVE TreeHolds(_, _)
TreeHolds(tree, record) ==
  IF "or" \in DOMAIN tree
    THEN \E i \in DOMAIN tree.or : TreeHolds(tree.or[i], record)
  ELSE IF "and" \in DOMAIN tree
    THEN \A i \in DOMAIN tree.and : TreeHolds(tree.and[i], record)
  ELSE \A i \in DOMAIN tree.leaf :
         "value" \in DOMAIN tree.leaf[i] =>
           \A j \in DOMAIN tree.leaf[i].value :
             EntryHolds(tree.leaf[i].key, tree.leaf[i].value[j], record)

\* The tree compiles to a fragment.
Compiles(tree) == Truthy(_serializeCondition(tree, createRefContext).expr)

\* Every composite of the tree has a child that compiles to a fragment.
RECURSIVE EveryCompositeCompiles(_)
EveryCompositeCompiles(tree) ==
  IsComposite(tree) =>
    /\ \E i \in DOMAIN ChildrenOf(tree) : Compiles(ChildrenOf(tree)[i])
    /\ \A i \in DOMAIN ChildrenOf(tree) : EveryCompositeCompiles(ChildrenOf(tree)[i])

\* No `or` of the tree has a child that compiles to nothing.
RECURSIVE NoAlternativeDropped(_)
NoAlternativeDropped(tree) ==
  IsComposite(tree) =>
    /\ "or" \in DOMAIN tree =>
         \A i \in DOMAIN tree.or : Compiles(tree.or[i])
    /\ \A i \in DOMAIN ChildrenOf(tree) : NoAlternativeDropped(ChildrenOf(tree)[i])

\* The records the conditions are read on.
MeaningRecords ==
  UNION {[A -> {"First Item", "First Item 2", "Updated Item"}] :
           A \in SUBSET {"name", "tag"}}

\* The compiled condition holds on the record.
ExpressionHolds(out, record) ==
  IF "ConditionExpression" \notin DOMAIN out THEN TRUE
  ELSE ConditionHolds(out, record)

\* C39: when every and/or composite of the tree has a child that compiles
\* to a fragment, the compiled expression is true on a record exactly when
\* the tree is.
C39_MeaningPreserved ==
  (/\ expOut # NotCalled
   /\ expIn.kind = "condition"
   /\ EveryCompositeCompiles(expIn.condition))
    => \A r \in MeaningRecords :
         ExpressionHolds(expOut.value, r) <=> TreeHolds(expIn.condition, r)

\* What holds: the meaning is preserved when, besides, no `or` has a child
\* that compiles to nothing.
C39_MeaningPreservedNoneDropped ==
  (/\ expOut # NotCalled
   /\ expIn.kind = "condition"
   /\ EveryCompositeCompiles(expIn.condition)
   /\ NoAlternativeDropped(expIn.condition))
    => \A r \in MeaningRecords :
         ExpressionHolds(expOut.value, r) <=> TreeHolds(expIn.condition, r)

\* An `or` of an equality and an empty leaf map compiles to the equality
\* alone: true on every record as a tree, false on a record without the
\* attribute as an expression.
C39_AlternativeDropped ==
  /\ expOut # NotCalled
  /\ expIn.kind = "condition"
  /\ expIn.condition =
       [or |-> <<[leaf |-> <<Operand("equals", << <<"name", "First Item">> >>)>>],
                 [leaf |-> <<>>]>>]
  /\ expOut.value.ConditionExpression = Str(<<"#name", "=", ":ref0">>)
  /\ TreeHolds(expIn.condition, EmptyMap)
  /\ ~ExpressionHolds(expOut.value, EmptyMap)

(***************************************************************************)
(* dynamo-table.ts: _deleteAll.  The loop queries a page, keeps its token  *)
(* and hands the keys of its items to batchDelete; it goes on while the    *)
(* token is truthy.  The items of the tables carry one attribute besides   *)
(* their key.  The store reads an ExclusiveStartKey as a position in key   *)
(* order, whether or not the item is still there, and ends a page at the   *)
(* Limit of the request or before it (the 1 MB rule): after `size` items.  *)
(* batchDelete is taken by its outcome: it resolves with every key         *)
(* deleted, or rejects with some of them deleted.                          *)
(***************************************************************************)
NoteChars == <<"n", "o", "t", "e">>

\* The item stored under a key.
ItemOf(key) ==
  JsObject(key.entries \o << <<NoteChars, Str(<<"x">>)>> >>)

\* schema.parse(item): the attributes of the schema, the others stripped.
SchemaParse(record) ==
  JsObject(SelectSeq(record.entries,
             LAMBDA e : e[1] \in {NameChars["id"], NameChars["tag"], NoteChars}))

\* Mutant: the key of a record is its hash key attribute.
keyFromRecordHashOnly(keys, record) ==
  JsObject(SelectSeq(record.entries, LAMBDA e : e[1] = NameChars[keys.hash]))

\* keyFromRecord(record): _pick(record, keys.hash, keys.range).
keyFromRecord(keys, record) ==
  JsObject(SelectSeq(record.entries,
             LAMBDA e : \/ e[1] = NameChars[keys.hash]
                        \/ ("range" \in DOMAIN keys /\ e[1] = NameChars[keys.range])))

\* client.query on a table of which the items `gone` were deleted.
QueryPage(all, gone, request, size) ==
  LET PageOf(rest) ==
        LET Cut(n) ==
              [error |-> NoError,
               Items |-> [i \in 1..n |-> ItemOf(rest[i])],
               LastEvaluatedKey |-> IF n >= 1 /\ n = size THEN rest[n] ELSE undefined]
        IN Cut(IF Len(rest) > size THEN size ELSE Len(rest))
      PageAfter(matching, from) ==
        PageOf(SelectSeq(SubSeq(matching, from + 1, Len(matching)),
                         LAMBDA k : k \notin gone))
      PageIn(matching) ==
        IF IsUndefined(request.ExclusiveStartKey) THEN PageAfter(matching, 0)
        ELSE IF \E i \in DOMAIN matching : matching[i] = request.ExclusiveStartKey
          THEN PageAfter(matching,
                         CHOOSE i \in DOMAIN matching :
                           matching[i] = request.ExclusiveStartKey)
          ELSE [error |-> StartKeyError, Items |-> <<>>, LastEvaluatedKey |-> undefined]
  IN PageIn(Selected(all, request))

\* The page size deleteAll asks for.
deleteAllLimit == 500

BatchDeleteFailure == [name |-> "Error", message |-> "batchDelete failed"]

\* One turn of the loop up to the await of batchDelete: the query, the
\* token, and the batchDelete call with the keys of the page.
DeleteAllQuery(size) ==
  /\ da # NotCalled
  /\ da.pc = "query"
  /\ LET Turned(request, page) ==
           /\ pgCall' = [op |-> "deleteAll", resumed |-> ToBoolean(da.token),
                         request |-> request]
           /\ pgResponse' =
                PageResponse([page EXCEPT
                                !.Items = [i \in DOMAIN page.Items |->
                                             SchemaParse(page.Items[i])]])
           /\ da' = IF page.error # NoError
                      THEN [da EXCEPT !.pc = "failed", !.error = page.error]
                      ELSE [da EXCEPT
                              !.pc = "delete",
                              !.token = PageTokenEncode(page.LastEvaluatedKey),
                              !.keys = [i \in DOMAIN page.Items |->
                                          keyFromRecord(pgTable.keys,
                                                        SchemaParse(page.Items[i]))],
                              !.batches =
                                 Append(@, [i \in DOMAIN page.Items |->
                                              keyFromRecord(pgTable.keys,
                                                            SchemaParse(page.Items[i]))])]
         Sent(request) ==
           Turned(request, QueryPage(pgTable.items, da.gone, request, size))
     IN Sent(serializeKeyCondition(pgTable.keys,
               (pgTable.keys.hash :> da.hashKey))
             @@ [TableName |-> tableName, Limit |-> deleteAllLimit,
                 ExclusiveStartKey |-> PageTokenDecode(da.token)])
  /\ pgPrev' = IF pgResponse = NotCalled THEN undefined
               ELSE pgResponse.LastEvaluatedKey
  /\ pgCalls' = pgCalls + 1
  /\ UNCHANGED pgTable
  /\ UNCHANGED notPage

\* batchDelete settles: with every key deleted it resolves and the loop
\* tests the token; otherwise it rejects, and so does deleteAll.
DeleteAllBatch(n) ==
  /\ da # NotCalled
  /\ da.pc = "delete"
  /\ n \in 0..Len(da.keys)
  /\ da' = [da EXCEPT
              !.gone = @ \cup {da.keys[j] : j \in 1..n},
              !.keys = <<>>,
              !.pc = IF n < Len(da.keys) THEN "failed"
                     ELSE IF ToBoolean(da.token) THEN "query" ELSE "done",
              !.error = IF n < Len(da.keys) THEN BatchDeleteFailure ELSE NoError]
  /\ UNCHANGED <<pgTable, pgCall, pgResponse, pgPrev, pgCalls>>
  /\ UNCHANGED notPage

InitDeleteAll ==
  /\ UpsertIdle
  /\ BatchIdle
  /\ TxIdle
  /\ ExprIdle
  /\ TableIdle
  /\ pgTable \in PageTables
  /\ pgCall = NotCalled
  /\ pgResponse = NotCalled
  /\ pgPrev = NotCalled
  /\ pgCalls = 0
  /\ \E i \in DOMAIN pgTable.items :
       da = [hashKey |-> AttributeOf(pgTable.items[i], pgTable.keys.hash),
             pc |-> "query", token |-> undefined, keys |-> <<>>, batches |-> <<>>,
             gone |-> {}, error |-> NoError]

NextDeleteAll ==
  \/ \E size \in 1..MaxLimit : DeleteAllQuery(size)
  \/ \E n \in 0..MaxLimit : DeleteAllBatch(n)

SpecDeleteAll == InitDeleteAll /\ [][NextDeleteAll]_vars

(***************************************************************************)
(* Properties of deleteAll.                                                *)
(***************************************************************************)
\* The step is a query of the loop.
QueryStep == pgCalls' = pgCalls + 1

\* The key attributes of the table.
PageKeyNames ==
  {NameChars[pgTable.keys.hash]}
    \cup (IF "range" \in DOMAIN pgTable.keys THEN {NameChars[pgTable.keys.range]} ELSE {})

\* The key of a record: its key attributes with their values.
IsKeyOf(key, record) ==
  /\ {key.entries[j][1] : j \in DOMAIN key.entries} = PageKeyNames
  /\ \A j \in DOMAIN key.entries :
       \E k \in DOMAIN record.entries : record.entries[k] = key.entries[j]

\* C35: deleteAll alternates query and batchDelete.  A query is made only
\* at the start or after a batchDelete that resolved, with the token of the
\* page before; the keys (hash and range) of every item of a page are handed
\* to batchDelete in the step that received the page; the loop ends after
\* the first page without a token, and a batchDelete that failed ends the
\* call without another query.
C35_DeleteAllLoop ==
  [][ /\ QueryStep =>
           /\ da.pc = "query"
           /\ da.keys = <<>>
           /\ pgCall'.request.Limit = 500
           /\ pgCall'.request.ExclusiveStartKey = PageTokenDecode(da.token)
           /\ IF pgCalls = 0 THEN IsUndefined(da.token)
              ELSE da.token = pgResponse.nextPageToken /\ ToBoolean(da.token)
           /\ da'.pc = "delete" =>
                /\ Len(da'.keys) = Len(pgResponse'.items)
                /\ \A i \in DOMAIN da'.keys :
                     IsKeyOf(da'.keys[i], pgResponse'.items[i])
                /\ da'.batches = Append(da.batches, da'.keys)
                /\ da'.token = pgResponse'.nextPageToken
      /\ (~QueryStep /\ da' # da) =>
           /\ da.pc = "delete"
           /\ da'.batches = da.batches
           /\ da'.pc = "done" <=>
                (da.keys \in Seq(da'.gone) /\ ~ToBoolean(da.token))
           /\ da'.pc = "query" <=>
                (da.keys \in Seq(da'.gone) /\ ToBoolean(da.token))
           /\ da'.pc = "failed" <=> ~(da.keys \in Seq(da'.gone))
      /\ da.pc \in {"done", "failed"} => (da' = da /\ pgCalls' = pgCalls) ]_vars

\* The three items of a hash key, in pages of one: four queries, the last
\* page empty and without a token.
C35_Witness ==
  /\ da # NotCalled
  /\ da.pc = "done"
  /\ "range" \in DOMAIN pgTable.keys
  /\ pgCalls = 4
  /\ Len(da.batches) = 4
  /\ Len(da.batches[1]) = 1
  /\ da.batches[4] = <<>>
  /\ Cardinality(da.gone) = 3

====
